---- MODULE Spec2Model ----
(***************************************************************************)
(* Quantitative scoring engine of the rajan-hans submission:               *)
(*   tools/factor_scoring_tools.py      compute_factor_scores              *)
(*   tools/fundamental_metrics_tools.py compute_fundamental_metrics        *)
(*   tools/fundamentals_tools.py        get_fundamentals                   *)
(*   tools/technical_indicators_tools.py compute_technical_indicators      *)
(*                                                                         *)
(* Numbers.  Python floats are modelled by exact fixed-point integers.     *)
(*   - an input quantity (a ratio, a P/E, an RSI, a growth rate) is an     *)
(*     integer number of hundredths: 0.15 is 15, a P/E of 18 is 1800;      *)
(*   - a score, and the sentiment adjustment, is an integer number of      *)
(*     1/Scale points: 50.0 is 50 * Scale.  Scale is a multiple of 3, 2    *)
(*     and 1000, so the means of two and three bucket scores, the weighted *)
(*     composite and an adjustment given to three decimals are all exact.  *)
(* Python dicts are functions with a finite domain; dict.get is Get.       *)
(***************************************************************************)
EXTENDS Integers, Sequences, FiniteSets, TLC

\* thirds (mean of three buckets) times thousandths (adjustment resolution)
Scale == 3 * 1000

\* Python None for a numeric field
None == 0 - 1000000

\* Python None for a string field
NoneLabel == "<None>"

Min(a, b) == IF a <= b THEN a ELSE b

Max(a, b) == IF a >= b THEN a ELSE b

Abs(a) == IF a < 0 THEN 0 - a ELSE a

\* d.get(k)
Get(d, k) == IF k \in DOMAIN d THEN d[k] ELSE None

\* d.get(k) for a string-valued key
GetLabel(d, k) == IF k \in DOMAIN d THEN d[k] ELSE NoneLabel

\* {} (also what a None benchmark record behaves like under `if benchmarks:`)
EmptyDict == [k \in {} |-> None]

\* bool(x) of a number or None
Truthy(x) == x # None /\ x # 0

\* a or b
Or(a, b) == IF Truthy(a) THEN a ELSE b

\* a or b, on strings
OrLabel(a, b) == IF a # NoneLabel /\ a # "" THEN a ELSE b

\* round(x, 2) of a value in 1/Scale units: nearest hundredth, ties to even
Round2(x) ==
    LET q  == Scale \div 100
        fl == x \div q
        r  == x - fl * q
    IN  IF 2 * r < q THEN fl * q
        ELSE IF 2 * r > q THEN (fl + 1) * q
        ELSE IF fl % 2 = 0 THEN fl * q ELSE (fl + 1) * q

\* a faulty variant of clamp: the upper limit is not applied
clampNoUpper(value) ==
    IF value = None THEN (0 + 100 * Scale) \div 2 ELSE Max(0, value)

\* _clamp(value) with the default limits 0.0 and 100.0
clamp(value) ==
    IF value = None THEN (0 + 100 * Scale) \div 2
    ELSE Max(0, Min(100 * Scale, value))

(***************************************************************************)
(* _score_valuation                                                        *)
(***************************************************************************)
score_valuation(fundamentals, benchmarks) ==
    LET pe_ttm     == Or(Or(Get(fundamentals, "pe_ttm"), Get(fundamentals, "pe")),
                         Get(fundamentals, "trailing_pe"))
        forward_pe == Or(Get(fundamentals, "forward_pe"), Get(fundamentals, "pe_forward"))
        peg_ratio  == Get(fundamentals, "peg_ratio")
        sector_pe  == IF DOMAIN benchmarks # {}
                      THEN Or(Or(Get(benchmarks, "sector_pe_median"),
                                 Get(benchmarks, "sector_pe")),
                              Get(benchmarks, "pe_median"))
                      ELSE None
        pe_to_use  == Or(forward_pe, pe_ttm)
        base       == IF pe_to_use < 1000 THEN 85
                      ELSE IF pe_to_use < 1500 THEN 75
                      ELSE IF pe_to_use < 2000 THEN 65
                      ELSE IF pe_to_use < 2500 THEN 55
                      ELSE IF pe_to_use < 3500 THEN 40
                      ELSE 25
        \* pe_ratio = pe_to_use / sector_pe compared by cross-multiplication
        sector_adj == IF Truthy(sector_pe) /\ sector_pe > 0
                      THEN IF 10 * pe_to_use < 7 * sector_pe THEN 15
                           ELSE IF 10 * pe_to_use < 9 * sector_pe THEN 8
                           ELSE IF 10 * pe_to_use > 13 * sector_pe THEN 0 - 15
                           ELSE IF 10 * pe_to_use > 11 * sector_pe THEN 0 - 8
                           ELSE 0
                      ELSE 0
        peg_adj    == IF peg_ratio # None /\ peg_ratio > 0
                      THEN IF peg_ratio < 100 THEN 10
                           ELSE IF peg_ratio < 150 THEN 5
                           ELSE IF peg_ratio > 250 THEN 0 - 10
                           ELSE IF peg_ratio > 200 THEN 0 - 5
                           ELSE 0
                      ELSE 0
    IN  IF pe_to_use = None THEN 50 * Scale
        ELSE IF pe_to_use <= 0 THEN 25 * Scale
        ELSE clamp((base + sector_adj + peg_adj) * Scale)

(***************************************************************************)
(* _score_growth                                                           *)
(***************************************************************************)
\* a faulty variant of cagr_score: the band edges read as percentages (20 for 20%)
\* while the inputs are fractions
cagr_score_percent(cagr, is_eps) ==
    IF cagr = None THEN 50
    ELSE IF is_eps
         THEN IF cagr >= 2500 THEN 95
              ELSE IF cagr >= 1500 THEN 80
              ELSE IF cagr >= 800 THEN 65
              ELSE IF cagr >= 0 THEN 45
              ELSE 20
         ELSE IF cagr >= 2000 THEN 95
              ELSE IF cagr >= 1200 THEN 80
              ELSE IF cagr >= 600 THEN 65
              ELSE IF cagr >= 0 THEN 45
              ELSE 25

cagr_score(cagr, is_eps) ==
    IF cagr = None THEN 50
    ELSE IF is_eps
         THEN IF cagr >= 25 THEN 95
              ELSE IF cagr >= 15 THEN 80
              ELSE IF cagr >= 8 THEN 65
              ELSE IF cagr >= 0 THEN 45
              ELSE 20
         ELSE IF cagr >= 20 THEN 95
              ELSE IF cagr >= 12 THEN 80
              ELSE IF cagr >= 6 THEN 65
              ELSE IF cagr >= 0 THEN 45
              ELSE 25

score_growth(growth) ==
    LET rev_cagr    == Get(growth, "revenue_cagr_3y")
        eps_cagr    == Get(growth, "eps_cagr_3y")
        revenue_yoy == Get(growth, "revenue_yoy")
        score       == ((cagr_score(rev_cagr, FALSE) + cagr_score(eps_cagr, TRUE)) * Scale) \div 2
        ref         == Or(rev_cagr, 0)
        bonus       == IF revenue_yoy # None
                       THEN IF revenue_yoy > ref THEN 5
                            ELSE IF revenue_yoy < ref THEN 0 - 5
                            ELSE 0
                       ELSE 0
    IN  clamp(score + bonus * Scale)

(***************************************************************************)
(* _score_profitability                                                    *)
(***************************************************************************)
roe_score(val) ==
    IF val = None THEN 50
    ELSE IF val >= 25 THEN 95
    ELSE IF val >= 15 THEN 80
    ELSE IF val >= 10 THEN 65
    ELSE IF val >= 5 THEN 45
    ELSE 25

margin_score(val) ==
    IF val = None THEN 50
    ELSE IF val >= 30 THEN 95
    ELSE IF val >= 20 THEN 80
    ELSE IF val >= 10 THEN 60
    ELSE IF val >= 0 THEN 40
    ELSE 20

score_profitability(profit) ==
    clamp(((roe_score(Get(profit, "roe"))
            + margin_score(Get(profit, "operating_margin"))) * Scale) \div 2)

(***************************************************************************)
(* _score_financial_health                                                 *)
(***************************************************************************)
de_score(val) ==
    IF val = None THEN 50
    ELSE IF val <= 30 THEN 95
    ELSE IF val <= 60 THEN 80
    ELSE IF val <= 100 THEN 60
    ELSE IF val <= 200 THEN 40
    ELSE 20

ic_score(val) ==
    IF val = None THEN 50
    ELSE IF val >= 1000 THEN 95
    ELSE IF val >= 600 THEN 80
    ELSE IF val >= 300 THEN 60
    ELSE IF val >= 100 THEN 35
    ELSE 15

score_financial_health(health) ==
    clamp(((de_score(Get(health, "debt_equity"))
            + ic_score(Get(health, "interest_coverage"))) * Scale) \div 2)

(***************************************************************************)
(* _score_technicals                                                       *)
(***************************************************************************)
\* a faulty variant of rsi_score: no branch for a missing value, which then falls
\* through the comparisons to the last return
rsi_score_no_none(val) ==
    IF 4000 <= val /\ val <= 6000 THEN 80
    ELSE IF 6000 < val /\ val <= 7000 THEN 70
    ELSE IF 3000 <= val /\ val < 4000 THEN 55
    ELSE IF val > 7000 THEN 40
    ELSE 35

rsi_score(val) ==
    IF val = None THEN 50
    ELSE IF 4000 <= val /\ val <= 6000 THEN 80
    ELSE IF 6000 < val /\ val <= 7000 THEN 70
    ELSE IF 3000 <= val /\ val < 4000 THEN 55
    ELSE IF val > 7000 THEN 40
    ELSE 35

\* str(label).lower() on the labels the model draws
Lower(label) ==
    CASE label = "Uptrend"  -> "uptrend"
      [] label = "SIDEWAYS" -> "sideways"
      [] OTHER              -> label

trend_score(label) ==
    IF label = NoneLabel THEN 50
    ELSE LET label_lower == Lower(label)
         IN  IF label_lower = "uptrend" THEN 85
             ELSE IF label_lower = "sideways" THEN 55
             ELSE IF label_lower = "downtrend" THEN 25
             ELSE 50

dd_score(val) ==
    IF val = None THEN 50
    ELSE LET v == Abs(val)
         IN  IF v < 10 THEN 90
             ELSE IF v < 20 THEN 70
             ELSE IF v < 35 THEN 45
             ELSE 25

score_technicals(tech) ==
    LET rsi      == Or(Or(Get(tech, "rsi14"), Get(tech, "rsi_14")), Get(tech, "rsi"))
        trend    == OrLabel(GetLabel(tech, "trend_label"), GetLabel(tech, "trend"))
        drawdown == Or(Get(tech, "max_drawdown_1y"), Get(tech, "max_drawdown"))
    IN  clamp(((rsi_score(rsi) + trend_score(trend) + dd_score(drawdown)) * Scale) \div 3)

(***************************************************************************)
(* compute_factor_scores                                                   *)
(***************************************************************************)
\* d.update(e); also how the input dicts of the model are put together
update(d, e) ==
    [k \in DOMAIN d \cup DOMAIN e |-> IF k \in DOMAIN e THEN e[k] ELSE d[k]]

\* d.get(k, {})
GetDict(d, k) == IF k \in DOMAIN d THEN d[k] ELSE EmptyDict

\* the dict built at lines 280-288: three top-level fields, overridden by the
\* entries of a nested "valuation" dict when there is one
valuation_data(fundamental_metrics) ==
    LET top == [pe_ttm     |-> Get(fundamental_metrics, "pe_ttm"),
                forward_pe |-> Get(fundamental_metrics, "forward_pe"),
                peg_ratio  |-> Get(fundamental_metrics, "peg_ratio")]
    IN  IF "valuation" \in DOMAIN fundamental_metrics
        THEN update(top, fundamental_metrics["valuation"])
        ELSE top

\* a faulty variant of composite_score: the growth and technical weights swapped
composite_swapped(v, g, p, h, t) ==
    (25 * v + 20 * g + 15 * p + 15 * h + 25 * t) \div 100

\* 0.25*valuation + 0.25*growth + 0.15*profitability + 0.15*health + 0.20*technical
composite_score(v, g, p, h, t) ==
    (25 * v + 25 * g + 15 * p + 15 * h + 20 * t) \div 100

\* a faulty variant of clamp_sentiment: the adjustment is applied as given
sentiment_unclamped(adjustment) == adjustment

\* max(-5.0, min(5.0, sentiment_adjustment))
clamp_sentiment(adjustment) == Max(0 - 5 * Scale, Min(5 * Scale, adjustment))

\* the rating ladder of lines 312-321
rating_of(final_score) ==
    IF final_score >= 80 * Scale THEN "STRONG BUY"
    ELSE IF final_score >= 65 * Scale THEN "BUY"
    ELSE IF final_score >= 45 * Scale THEN "HOLD"
    ELSE IF final_score >= 30 * Scale THEN "REDUCE"
    ELSE "SELL"

\* the local variables of compute_factor_scores when it reaches its return
\* statement (lines 291-321), unrounded
factor_locals(fundamental_metrics, technical_indicators, sector_benchmarks, sentiment_adjustment) ==
    LET valuation_score        == score_valuation(valuation_data(fundamental_metrics),
                                                  sector_benchmarks)
        growth_score           == score_growth(GetDict(fundamental_metrics, "growth"))
        profitability_score    == score_profitability(
                                      GetDict(fundamental_metrics, "profitability"))
        financial_health_score == score_financial_health(
                                      GetDict(fundamental_metrics, "financial_health"))
        technical_score        == score_technicals(technical_indicators)
        composite              == composite_score(valuation_score, growth_score,
                                                  profitability_score,
                                                  financial_health_score, technical_score)
        adjustment             == clamp_sentiment(sentiment_adjustment)
        final_score            == clamp(composite + adjustment)
    IN  [valuation_score        |-> valuation_score,
         growth_score           |-> growth_score,
         profitability_score    |-> profitability_score,
         financial_health_score |-> financial_health_score,
         technical_score        |-> technical_score,
         composite_score        |-> composite,
         sentiment_adjustment   |-> adjustment,
         final_score            |-> final_score,
         rating                 |-> rating_of(final_score)]

\* the returned dict (lines 323-333): every number rounded to two decimals
returned_scores(l) ==
    [valuation_score        |-> Round2(l.valuation_score),
     growth_score           |-> Round2(l.growth_score),
     profitability_score    |-> Round2(l.profitability_score),
     financial_health_score |-> Round2(l.financial_health_score),
     technical_score        |-> Round2(l.technical_score),
     composite_score        |-> Round2(l.composite_score),
     sentiment_adjustment   |-> Round2(l.sentiment_adjustment),
     final_score            |-> Round2(l.final_score),
     rating                 |-> l.rating]

compute_factor_scores(fundamental_metrics, technical_indicators, sector_benchmarks, sentiment_adjustment) ==
    returned_scores(factor_locals(fundamental_metrics, technical_indicators,
                                  sector_benchmarks, sentiment_adjustment))

(***************************************************************************)
(* fundamentals_tools.py: get_fundamentals.  A provider DataFrame is a     *)
(* record [is_none, index, columns]: index is the set of line-item labels, *)
(* columns the periods (most recent first), each a function from index     *)
(* to an amount or NaN.                                                    *)
(***************************************************************************)
\* a cell the provider did not report
NaN == 0 - 2000000

NoneFrame == [is_none |-> TRUE, index |-> {}, columns |-> <<>>]

\* df.empty: one of the two axes has length 0
empty(df) == df.index = {} \/ Len(df.columns) = 0

\* _normalize_statement: df.fillna(0), then one dict per column
normalize_statement(df) ==
    IF df.is_none \/ empty(df) THEN <<>>
    ELSE [i \in 1 .. Len(df.columns) |->
             [r \in df.index |-> IF df.columns[i][r] = NaN THEN 0
                                 ELSE df.columns[i][r]]]

\* _safe_get(record, *keys): the first key present with a value other than None
RECURSIVE safe_get(_, _)
safe_get(record, keys) ==
    IF keys = <<>> THEN None
    ELSE IF Head(keys) \in DOMAIN record /\ record[Head(keys)] # None
         THEN record[Head(keys)]
         ELSE safe_get(record, Tail(keys))

normalized_income(rec) ==
    [revenue          |-> safe_get(rec, <<"Total Revenue", "Revenue">>),
     gross_profit     |-> safe_get(rec, <<"Gross Profit">>),
     operating_income |-> safe_get(rec, <<"Operating Income", "Operating Income or Loss">>),
     net_income       |-> safe_get(rec, <<"Net Income", "Net Income Common Stockholders">>),
     eps              |-> safe_get(rec, <<"Diluted EPS", "Basic EPS">>),
     interest_expense |-> safe_get(rec, <<"Interest Expense">>),
     ebit             |-> safe_get(rec, <<"EBIT">>)]

normalized_balance(rec) ==
    [total_assets         |-> safe_get(rec, <<"Total Assets">>),
     total_equity         |-> safe_get(rec, <<"Total Stockholder Equity",
                                              "Stockholders Equity">>),
     total_debt           |-> safe_get(rec, <<"Total Debt">>),
     cash_and_equivalents |-> safe_get(rec, <<"Cash And Cash Equivalents", "Cash">>),
     current_assets       |-> safe_get(rec, <<"Total Current Assets">>),
     current_liabilities  |-> safe_get(rec, <<"Total Current Liabilities">>)]

normalized_cashflow(rec) ==
    [operating_cash_flow |-> safe_get(rec, <<"Total Cash From Operating Activities">>),
     capital_expenditure |-> safe_get(rec, <<"Capital Expenditures">>),
     free_cash_flow      |-> safe_get(rec, <<"Free Cash Flow">>)]

\* get_fundamentals(ticker) against a provider that holds the three frames
\* `p` and whose fetch raises when p.fails.  The outcome is the exception
\* raised or the dict returned (as_of_date, today's date, is left out).
get_fundamentals(tk, p) ==
    IF tk = "" THEN [kind |-> "FundamentalsDataError"]
    ELSE IF p.fails THEN [kind |-> "FundamentalsDataError"]
    ELSE IF p.income_stmt.is_none \/ empty(p.income_stmt)
         THEN [kind |-> "FundamentalsDataError"]
    ELSE LET income_records   == normalize_statement(p.income_stmt)
             balance_records  == normalize_statement(p.balance_sheet)
             cashflow_records == normalize_statement(p.cash_flow)
         IN  [kind  |-> "ok",
              value |-> [income_statement |->
                             [i \in 1 .. Len(income_records) |->
                                 normalized_income(income_records[i])],
                         balance_sheet |->
                             [i \in 1 .. Len(balance_records) |->
                                 normalized_balance(balance_records[i])],
                         cash_flow |->
                             [i \in 1 .. Len(cashflow_records) |->
                                 normalized_cashflow(cashflow_records[i])],
                         source |-> "yfinance"]]

(***************************************************************************)
(* fundamental_metrics_tools.py: compute_fundamental_metrics.  A metric    *)
(* is the exact quotient [num, den] with den > 0, or NoRatio for None; a   *)
(* CAGR is kept as the triple it was computed from.                        *)
(***************************************************************************)
NoRatio == [num |-> 0, den |-> 0]

NoCagr == [start |-> 0, end |-> 0, years |-> 0]

\* _safe_div
safe_div(numerator, denominator) ==
    IF numerator = None \/ denominator = None \/ denominator = 0 THEN NoRatio
    ELSE IF denominator > 0 THEN [num |-> numerator, den |-> denominator]
    ELSE [num |-> 0 - numerator, den |-> 0 - denominator]

\* r > a/b, r >= a/b, r <= a/b for a present ratio r and b > 0
RatioGt(r, a, b) == r.num * b > a * r.den

RatioGe(r, a, b) == r.num * b >= a * r.den

RatioLe(r, a, b) == r.num * b <= a * r.den

\* _cagr: (end / start) ** (1 / years) - 1, kept symbolic
cagr(start, end, years) ==
    IF start = None \/ start = 0 \/ end = None \/ end = 0 \/ years <= 0 THEN NoCagr
    ELSE [start |-> start, end |-> end, years |-> years]

\* [row.get(key) for row in rows if row.get(key) is not None]
RECURSIVE present_values(_, _)
present_values(rows, key) ==
    IF rows = <<>> THEN <<>>
    ELSE IF Get(Head(rows), key) # None
         THEN <<Get(Head(rows), key)>> \o present_values(Tail(rows), key)
         ELSE present_values(Tail(rows), key)

\* d.get(k, [])
GetList(d, k) == IF k \in DOMAIN d THEN d[k] ELSE <<>>


\* line 54: len(income) < 2 or len(balance) < 1
metrics_precondition_unmet(income, balance) == Len(income) < 2 \/ Len(balance) < 1

compute_fundamental_metrics(fundamentals) ==
    LET income     == GetList(fundamentals, "income_statement")
        balance    == GetList(fundamentals, "balance_sheet")
        latest_inc == income[1]
        prev_inc   == income[2]
        latest_bal == balance[1]
        revenues   == present_values(income, "revenue")
        eps_values == present_values(income, "eps")
        revenue_cagr == IF Len(revenues) >= 4
                        THEN cagr(revenues[Len(revenues)], revenues[1], 3)
                        ELSE NoCagr
        eps_cagr     == IF Len(eps_values) >= 4
                        THEN cagr(eps_values[Len(eps_values)], eps_values[1], 3)
                        ELSE NoCagr
        revenue_yoy  == safe_div(Get(latest_inc, "revenue") - Get(prev_inc, "revenue"),
                                 Get(prev_inc, "revenue"))
        eps_yoy      == safe_div(Get(latest_inc, "eps") - Get(prev_inc, "eps"),
                                 IF Truthy(Get(prev_inc, "eps"))
                                 THEN Abs(Get(prev_inc, "eps")) ELSE None)
        growth_trend == IF revenue_yoy # NoRatio
                        THEN IF RatioGt(revenue_yoy, 10, 100) THEN "accelerating"
                             ELSE IF RatioGt(revenue_yoy, 3, 100) THEN "stable"
                             ELSE "slowing"
                        ELSE "unknown"
        revenue          == Get(latest_inc, "revenue")
        gross_profit     == Get(latest_inc, "gross_profit")
        operating_income == Get(latest_inc, "operating_income")
        net_income       == Get(latest_inc, "net_income")
        equity           == Get(latest_bal, "total_equity")
        assets           == Get(latest_bal, "total_assets")
        roe              == safe_div(net_income, equity)
        profitability_level ==
                        IF roe # NoRatio
                        THEN IF RatioGe(roe, 20, 100) THEN "high"
                             ELSE IF RatioGe(roe, 10, 100) THEN "medium"
                             ELSE "low"
                        ELSE "unknown"
        total_debt          == Get(latest_bal, "total_debt")
        cash                == Get(latest_bal, "cash_and_equivalents")
        current_assets      == Get(latest_bal, "current_assets")
        current_liabilities == Get(latest_bal, "current_liabilities")
        interest_expense    == Get(latest_inc, "interest_expense")
        ebit                == Get(latest_inc, "ebit")
        debt_equity         == safe_div(total_debt, equity)
        balance_strength ==
                        IF debt_equity # NoRatio
                        THEN IF RatioLe(debt_equity, 5, 10) THEN "strong"
                             ELSE IF RatioLe(debt_equity, 1, 1) THEN "acceptable"
                             ELSE "weak"
                        ELSE "unknown"
    IN  IF metrics_precondition_unmet(income, balance)
        THEN [kind |-> "FundamentalMetricsError"]
        \* lines 79 and 84 subtract before _safe_div is entered: None - x raises
        ELSE IF Get(latest_inc, "revenue") = None \/ Get(prev_inc, "revenue") = None
                \/ Get(latest_inc, "eps") = None \/ Get(prev_inc, "eps") = None
        THEN [kind |-> "TypeError"]
        ELSE [kind  |-> "ok",
              value |->
                [growth |->
                    [revenue_cagr_3y |-> revenue_cagr,
                     eps_cagr_3y     |-> eps_cagr,
                     revenue_yoy     |-> revenue_yoy,
                     eps_yoy         |-> eps_yoy,
                     growth_trend    |-> growth_trend],
                 profitability |->
                    [gross_margin        |-> safe_div(gross_profit, revenue),
                     operating_margin    |-> safe_div(operating_income, revenue),
                     net_margin          |-> safe_div(net_income, revenue),
                     roe                 |-> roe,
                     roa                 |-> safe_div(net_income, assets),
                     profitability_level |-> profitability_level],
                 financial_health |->
                    [debt_equity            |-> debt_equity,
                     interest_coverage      |-> IF Truthy(interest_expense)
                                                THEN safe_div(ebit, Abs(interest_expense))
                                                ELSE NoRatio,
                     cash_to_debt           |-> safe_div(cash, total_debt),
                     current_ratio          |-> safe_div(current_assets, current_liabilities),
                     balance_sheet_strength |-> balance_strength]]]

(***************************************************************************)
(* technical_indicators_tools.py: compute_technical_indicators.  A price   *)
(* frame is [columns, rows, close, high, low]: its column labels, its      *)
(* number of rows and three of its columns, oldest row first.              *)
(***************************************************************************)
required_cols == {"date", "open", "high", "low", "close", "volume"}

\* line 60: the least number of rows
MinRows == 200

\* line 55: a required column is missing
missing_columns(price_df) == ~(required_cols \subseteq price_df.columns)

\* a faulty variant of too_few_rows: a frame of exactly MinRows rows is refused too
too_few_rows_strict(price_df) == price_df.rows <= MinRows

\* line 60: price_df.shape[0] < 200
too_few_rows(price_df) == price_df.rows < MinRows

\* round(num / den) to the nearest integer, halves to the even one (den > 0)
RoundDiv(num, den) ==
    LET fl == num \div den
        r  == num - fl * den
    IN  IF 2 * r < den THEN fl
        ELSE IF 2 * r > den THEN fl + 1
        ELSE IF fl % 2 = 0 THEN fl ELSE fl + 1

\* the largest r in lo .. hi with r * r <= n
RECURSIVE sqrt_between(_, _, _)
sqrt_between(n, lo, hi) ==
    IF lo >= hi THEN lo
    ELSE LET mid == (lo + hi + 1) \div 2
         IN  IF mid * mid <= n THEN sqrt_between(n, mid, hi)
             ELSE sqrt_between(n, lo, mid - 1)

\* np.sqrt / Series.std's root, to the nearest unit of its argument
sqrt(n) ==
    LET r == sqrt_between(n, 0, 46340)
    IN  IF n - r * r > r THEN r + 1 ELSE r

\* s[lo] + ... + s[hi], by halves
RECURSIVE SumOver(_, _, _)
SumOver(s, lo, hi) ==
    IF lo > hi THEN 0
    ELSE IF lo = hi THEN s[lo]
    ELSE LET mid == (lo + hi) \div 2
         IN  SumOver(s, lo, mid) + SumOver(s, mid + 1, hi)

RECURSIVE MaxOver(_, _, _)
MaxOver(s, lo, hi) ==
    IF lo >= hi THEN s[hi]
    ELSE LET mid == (lo + hi) \div 2
         IN  Max(MaxOver(s, lo, mid), MaxOver(s, mid + 1, hi))

RECURSIVE MinOver(_, _, _)
MinOver(s, lo, hi) ==
    IF lo >= hi THEN s[hi]
    ELSE LET mid == (lo + hi) \div 2
         IN  Min(MinOver(s, lo, mid), MinOver(s, mid + 1, hi))

\* lines 73-75: close.rolling(window).mean().iloc[-1], as the window's sum
\* (the mean is rolling_sum / window)
rolling_sum(s, window) == SumOver(s, Len(s) - window + 1, Len(s))

\* lines 84-87: close.diff() clipped from below / from above at 0, at row t
gain(close, t) == Max(close[t] - close[t - 1], 0)

loss(close, t) == Max(close[t - 1] - close[t], 0)

\* lines 89-93: avg_gain / avg_loss over the last 14 rows and
\* 100 - 100 / (1 + rs), as an exact ratio.  A zero avg_loss makes rs
\* infinite and the RSI 100 when avg_gain > 0, and rs = 0 / 0 = NaN (NoRatio
\* here) when avg_gain is 0 too
rsi(close) ==
    LET n        == Len(close)
        avg_gain == SumOver([t \in 1 .. n |-> IF t = 1 THEN 0 ELSE gain(close, t)],
                            n - 13, n)
        avg_loss == SumOver([t \in 1 .. n |-> IF t = 1 THEN 0 ELSE loss(close, t)],
                            n - 13, n)
    IN  IF avg_loss = 0
        THEN IF avg_gain = 0 THEN NoRatio ELSE [num |-> 100, den |-> 1]
        ELSE [num |-> 100 * avg_gain, den |-> avg_gain + avg_loss]

\* the MACD lines are kept in 1/MacdUnit of a price unit
MacdUnit == 10 * 10000

\* one step of ewm(span, adjust=False).mean(): y = (1 - a) * y' + a * x with
\* a = 2 / (span + 1)
ewm_step(prev, x, span) == RoundDiv((span - 1) * prev + 2 * x, span + 1)

\* lines 100-104: ema12, ema26 and the signal line after row t, from the
\* lines p after row t - 1
macd_step(p, x) ==
    LET ema12 == ewm_step(p.ema12, x * MacdUnit, 12)
        ema26 == ewm_step(p.ema26, x * MacdUnit, 26)
    IN  [ema12  |-> ema12,
         ema26  |-> ema26,
         signal |-> ewm_step(p.signal, ema12 - ema26, 9)]

\* the lines after row hi, from the lines p after row lo - 1 (rows lo .. hi
\* are taken in order, by halves)
RECURSIVE macd_scan(_, _, _, _)
macd_scan(close, lo, hi, p) ==
    IF lo = hi THEN macd_step(p, close[lo])
    ELSE LET mid  == (lo + hi) \div 2
             left == macd_scan(close, lo, mid, p)
         \* the left half is evaluated before the right half is entered
         IN  IF left.ema12 = 0 THEN macd_scan(close, mid + 1, hi, left)
             ELSE macd_scan(close, mid + 1, hi, left)

\* ewm(adjust=False) starts each line at its first value: the EMAs at
\* close[0], the signal at macd_line[0] = 0
macd_lines(close) ==
    macd_scan(close, 2, Len(close),
              [ema12 |-> close[1] * MacdUnit, ema26 |-> close[1] * MacdUnit, signal |-> 0])

\* line 114: close.pct_change() at row t, in 1/10000
pct_change(close, t) == RoundDiv((close[t] - close[t - 1]) * 10000, close[t - 1])

\* line 115: returns.rolling(30).std().iloc[-1] * sqrt(252), in 1/10000;
\* std is the sample deviation: 30 * 29 * var = 30 * sum(r^2) - sum(r)^2
volatility(close) ==
    LET n       == Len(close)
        returns == [t \in 1 .. n |-> IF t = 1 THEN 0 ELSE pct_change(close, t)]
        squares == [t \in 1 .. n |-> returns[t] * returns[t]]
        d       == 30 * SumOver(squares, n - 29, n)
                      - SumOver(returns, n - 29, n) * SumOver(returns, n - 29, n)
    IN  sqrt((d \div 145) * 42)

\* a faulty variant of drawdown_step: the decline is measured as a positive
\* fraction of the peak and the greatest one is kept
drawdown_step_magnitude(p, x) ==
    LET rolling_max == Max(p.rolling_max, x)
        num         == rolling_max - x
    IN  IF p.den = 0 \/ num * p.den > p.num * rolling_max
        THEN [rolling_max |-> rolling_max, num |-> num, den |-> rolling_max]
        ELSE [rolling_max |-> rolling_max, num |-> p.num, den |-> p.den]

\* lines 120-122 at one row: the running maximum and the least drawdown
\* num / den so far, after a row closing at x
drawdown_step(p, x) ==
    LET rolling_max == Max(p.rolling_max, x)
        num         == x - rolling_max
    IN  IF p.den = 0 \/ num * p.den < p.num * rolling_max
        THEN [rolling_max |-> rolling_max, num |-> num, den |-> rolling_max]
        ELSE [rolling_max |-> rolling_max, num |-> p.num, den |-> p.den]

\* rows lo .. hi taken in order, by halves
RECURSIVE drawdown_scan(_, _, _, _)
drawdown_scan(close, lo, hi, p) ==
    IF lo = hi THEN drawdown_step(p, close[lo])
    ELSE LET mid  == (lo + hi) \div 2
             left == drawdown_scan(close, lo, mid, p)
         \* the left half is evaluated before the right half is entered
         IN  IF left.den = 0 THEN drawdown_scan(close, mid + 1, hi, left)
             ELSE drawdown_scan(close, mid + 1, hi, left)

\* lines 120-122: close.cummax() and the minimum of
\* (close - rolling_max) / rolling_max over all rows
drawdown_min(close) ==
    drawdown_scan(close, 1, Len(close), [rolling_max |-> 0, num |-> 0, den |-> 0])

\* line 128: close.rolling(20).std().iloc[-1], in hundredths of a price unit
bb_std(close) ==
    LET n       == Len(close)
        squares == [t \in 1 .. n |-> close[t] * close[t]]
        d       == 20 * SumOver(squares, n - 19, n)
                      - rolling_sum(close, 20) * rolling_sum(close, 20)
    IN  sqrt((d * 500) \div 19)

\* lines 144-147: the true range at row t
true_range(high, low, close, t) ==
    IF t = 1 THEN high[1] - low[1]
    ELSE Max(high[t] - low[t],
             Max(Abs(high[t] - close[t - 1]), Abs(low[t] - close[t - 1])))

\* line 160: 100 * (close - lowest_low) / (highest_high - lowest_low) at row
\* t, in 1/10000; 0 / 0 is NaN
stoch_k_raw(high, low, close, t) ==
    LET lowest_low   == MinOver(low, t - 13, t)
        highest_high == MaxOver(high, t - 13, t)
    IN  IF highest_high = lowest_low THEN NaN
        ELSE RoundDiv(100 * (close[t] - lowest_low) * 10000, highest_high - lowest_low)

\* rolling(window=3).mean() at row t of a series given by its rows
mean3(a, b, c) == IF NaN \in {a, b, c} THEN NaN ELSE RoundDiv(a + b + c, 3)

\* round(x, digits) of a value held in 1/10000, to hundredths
round_to_hundredths(x) == IF x = NaN THEN NaN ELSE RoundDiv(x, 100)

\* lines 65-254: the indicators of a frame that passed both guards.  Prices
\* are whole units.  sma*, bb_upper/middle/lower, week_52_high/low, rsi14,
\* stoch_*, atr_percent and week_52_position are in hundredths; macd*,
\* volatility_30d, max_drawdown_1y, bb_width, bb_percent and atr14 in
\* 1/10000.  round() of an exact tie goes to the even neighbour.
technical_indicators_of(price_df) ==
    LET close == price_df.close
        high  == price_df.high
        low   == price_df.low
        n     == Len(close)
        sum20  == rolling_sum(close, 20)
        sum50  == rolling_sum(close, 50)
        sum200 == rolling_sum(close, 200)
        rsi14  == rsi(close)
        lines  == macd_lines(close)
        macd        == lines.ema12 - lines.ema26
        macd_signal == lines.signal
        max_drawdown == drawdown_min(close)
        bb_middle   == 5 * sum20
        std20       == bb_std(close)
        bb_upper    == bb_middle + 2 * std20
        bb_lower    == bb_middle - 2 * std20
        bb_width    == IF bb_middle > 0
                       THEN RoundDiv((bb_upper - bb_lower) * 10000, bb_middle) ELSE 0
        last_close  == close[n]
        bb_percent  == IF bb_upper - bb_lower > 0
                       THEN RoundDiv((last_close * 100 - bb_lower) * 10000,
                                     bb_upper - bb_lower)
                       ELSE 5000
        tr_sum      == SumOver([t \in 1 .. n |-> true_range(high, low, close, t)],
                               n - 13, n)
        raw         == [t \in n - 4 .. n |-> stoch_k_raw(high, low, close, t)]
        k           == [t \in n - 2 .. n |-> mean3(raw[t - 2], raw[t - 1], raw[t])]
        stoch_k     == k[n]
        stoch_d     == mean3(k[n - 2], k[n - 1], k[n])
        first       == Max(1, n - 251)
        week_52_high  == MaxOver(close, first, n)
        week_52_low   == MinOver(close, first, n)
        week_52_range == week_52_high - week_52_low
        trend_label ==
            IF last_close * 200 * 100 > sum200 * 102 THEN "uptrend"
            ELSE IF last_close * 200 * 100 < sum200 * 98 THEN "downtrend"
            ELSE "sideways"
        momentum_label ==
            IF rsi14 # NoRatio /\ RatioGe(rsi14, 60, 1) /\ macd > macd_signal
            THEN "bullish"
            ELSE IF rsi14 # NoRatio /\ RatioLe(rsi14, 40, 1) /\ macd < macd_signal
            THEN "bearish"
            ELSE "neutral"
        \* atr_percent = atr14 / last_close * 100 with atr14 = tr_sum / 14
        atr_over(x)  == last_close > 0 /\ tr_sum * 100 * 10 > x * 14 * last_close
        atr_under(x) == last_close <= 0 \/ tr_sum * 100 * 10 < x * 14 * last_close
        volatility_label ==
            IF atr_over(30) \/ bb_width > 1500 THEN "high"
            ELSE IF atr_under(15) /\ bb_width < 800 THEN "low"
            ELSE "moderate"
        bb_signal ==
            IF bb_percent > 10000 THEN "overbought"
            ELSE IF bb_percent < 0 THEN "oversold"
            ELSE IF bb_width < 600 THEN "squeeze"
            ELSE "neutral"
    IN  [sma20  |-> RoundDiv(sum20 * 100, 20),
         sma50  |-> RoundDiv(sum50 * 100, 50),
         sma200 |-> RoundDiv(sum200 * 100, 200),
         rsi14  |-> IF rsi14 = NoRatio THEN NaN
                    ELSE RoundDiv(rsi14.num * 100, rsi14.den),
         macd        |-> RoundDiv(macd, MacdUnit \div 10000),
         macd_signal |-> RoundDiv(macd_signal, MacdUnit \div 10000),
         macd_hist   |-> RoundDiv(macd - macd_signal, MacdUnit \div 10000),
         volatility_30d  |-> volatility(close),
         max_drawdown_1y |-> RoundDiv(max_drawdown.num * 10000, max_drawdown.den),
         bb_upper   |-> bb_upper,
         bb_middle  |-> bb_middle,
         bb_lower   |-> bb_lower,
         bb_width   |-> bb_width,
         bb_percent |-> bb_percent,
         atr14       |-> RoundDiv(tr_sum * 10000, 14),
         atr_percent |-> IF last_close > 0
                         THEN RoundDiv(tr_sum * 100 * 100, 14 * last_close) ELSE 0,
         stoch_k |-> round_to_hundredths(stoch_k),
         stoch_d |-> round_to_hundredths(stoch_d),
         week_52_high     |-> week_52_high * 100,
         week_52_low      |-> week_52_low * 100,
         week_52_position |-> IF week_52_range > 0
                              THEN RoundDiv((last_close - week_52_low) * 100 * 100,
                                            week_52_range)
                              ELSE 5000,
         trend_label      |-> trend_label,
         momentum_label   |-> momentum_label,
         volatility_label |-> volatility_label,
         bb_signal        |-> bb_signal]

\* the exception raised, or "ok" with the indicators when both guards pass
compute_technical_indicators(price_df) ==
    IF missing_columns(price_df)
    THEN [kind |-> "TechnicalIndicatorError", message |-> "Missing required columns"]
    ELSE IF too_few_rows(price_df)
    THEN [kind |-> "TechnicalIndicatorError", message |-> "At least 200 rows"]
    ELSE [kind |-> "ok", message |-> "", value |-> technical_indicators_of(price_df)]

(***************************************************************************)
(* sector_benchmarks_tools.py: get_sector_benchmarks over config.py's      *)
(* SECTOR_BENCHMARKS.  Multiples (P/E, PEG, P/S) and margins are in        *)
(* hundredths.                                                             *)
(***************************************************************************)
SectorNames ==
    {"Technology", "Healthcare", "Financial Services", "Consumer Cyclical",
     "Industrials", "Energy", "Utilities", "Communication Services", "Basic Materials",
     "Real Estate", "Consumer Defensive"}

SectorRow(pe, fpe, peg, ps, gm, om, nm) ==
    [valuation     |-> [pe_median |-> pe, forward_pe_median |-> fpe, peg_median |-> peg,
                        ps_median |-> ps],
     profitability |-> [gross_margin_median |-> gm, operating_margin_median |-> om,
                        net_margin_median |-> nm]]

SECTOR_BENCHMARKS ==
    [s \in SectorNames |->
        CASE s = "Technology"             -> SectorRow(3200, 2700, 190, 750, 58, 26, 21)
          [] s = "Healthcare"             -> SectorRow(2000, 1700, 180, 400, 62, 22, 16)
          [] s = "Financial Services"     -> SectorRow(1400, 1250, 130, 350, 50, 32, 24)
          [] s = "Consumer Cyclical"      -> SectorRow(2200, 1900, 150, 180, 38, 12, 7)
          [] s = "Industrials"            -> SectorRow(2200, 1900, 160, 220, 32, 14, 9)
          [] s = "Energy"                 -> SectorRow(1200, 1050, 100, 130, 35, 18, 11)
          [] s = "Utilities"              -> SectorRow(1800, 1650, 280, 250, 42, 22, 14)
          [] s = "Communication Services" -> SectorRow(2000, 1700, 140, 380, 55, 24, 16)
          [] s = "Basic Materials"        -> SectorRow(1500, 1300, 120, 180, 28, 14, 9)
          [] s = "Real Estate"            -> SectorRow(3800, 3400, 300, 900, 58, 38, 22)
          [] s = "Consumer Defensive"     -> SectorRow(2400, 2100, 250, 280, 36, 14, 9)]

\* a faulty variant of resolve_sector: an unknown sector falls back to the
\* first sector of the table that follows Technology
resolve_sector_healthcare(sector) ==
    IF sector \in DOMAIN SECTOR_BENCHMARKS THEN sector ELSE "Healthcare"

\* lines 14-19: the sector whose row is used
resolve_sector(sector) ==
    IF sector \in DOMAIN SECTOR_BENCHMARKS THEN sector ELSE "Technology"

\* get_sector_benchmarks(ticker, sector) called on the day `today`; a None
\* sector is NoneLabel
get_sector_benchmarks(ticker, sector, today) ==
    IF sector = NoneLabel \/ sector = ""
    THEN [kind |-> "SectorBenchmarkError", message |-> "Sector not provided."]
    ELSE LET used       == resolve_sector(sector)
             benchmarks == SECTOR_BENCHMARKS[used]
         IN  [kind  |-> "ok",
              value |-> [sector        |-> used,
                         valuation     |-> benchmarks.valuation,
                         profitability |-> benchmarks.profitability,
                         as_of_date    |-> today,
                         source        |-> "static_v1"]]

(***************************************************************************)
(* yfinance_provider.py: the singleton YFinanceProvider, as far as         *)
(* get_info; valuation_tools.py: get_valuation_metrics.  Multiples and     *)
(* the price are in hundredths, market cap, enterprise value, shares and   *)
(* cash flows in whole units, the valuation score in tenths.               *)
(***************************************************************************)
\* _provider_instance is None
NoInstance == [created |-> FALSE, cache |-> EmptyDict]

\* CachedTickerData._info is None
NoInfo == [fetched |-> FALSE]

\* the answer of yf.Ticker(t).info: the dict, or the request fails
InfoFailure == [fails |-> TRUE]

\* str.upper() on the tickers used
Upper(t) == IF t = "aapl" THEN "AAPL" ELSE IF t = "msft" THEN "MSFT" ELSE t

\* line 57: the cache's time to live, in minutes
cache_ttl == 30

\* a faulty variant of is_expired under which no entry ever expires
is_expired_never(cached, clock) == FALSE

\* CachedTickerData.is_expired: age > timedelta(minutes=max_age_minutes)
is_expired(cached, clock) == clock - cached.created_at > cache_ttl

\* get_yfinance_provider: the singleton, created on first use
get_yfinance_provider(instance) ==
    IF instance.created THEN instance ELSE [created |-> TRUE, cache |-> EmptyDict]

\* _get_or_create_cache: the cache after the call; an entry that is missing
\* or expired is replaced by a fresh one with nothing fetched
get_or_create_cache(cache, t, clock) ==
    LET key == Upper(t)
    IN  IF key \in DOMAIN cache /\ ~is_expired(cache[key], clock) THEN cache
        ELSE [k \in DOMAIN cache \cup {key} |->
                IF k = key THEN [created_at |-> clock, info |-> NoInfo] ELSE cache[k]]

\* YFinanceProvider.get_info on the singleton: what it returns or raises,
\* and the singleton afterwards; `remote` is what Yahoo answers now
get_info(instance, t, clock, remote) ==
    LET provider_ == get_yfinance_provider(instance)
        cache     == get_or_create_cache(provider_.cache, t, clock)
        cached    == cache[Upper(t)]
    IN  IF cached.info # NoInfo
        THEN [kind |-> "ok", value |-> cached.info.value,
              instance |-> [created |-> TRUE, cache |-> cache]]
        ELSE IF remote = InfoFailure
        THEN [kind |-> "Exception", value |-> EmptyDict,
              instance |-> [created |-> TRUE, cache |-> cache]]
        ELSE [kind |-> "ok", value |-> remote,
              instance |-> [created |-> TRUE,
                            cache |-> [cache EXCEPT ![Upper(t)].info =
                                          [fetched |-> TRUE, value |-> remote]]]]

\* info.get(key, default)
GetOr(d, k, default) == IF k \in DOMAIN d THEN d[k] ELSE default

\* lines 205-217
pe_ttm_scores(pe_ttm) ==
    IF Truthy(pe_ttm) /\ pe_ttm > 0
    THEN IF pe_ttm < 1000 THEN <<90>>
         ELSE IF pe_ttm < 1500 THEN <<75>>
         ELSE IF pe_ttm < 2000 THEN <<60>>
         ELSE IF pe_ttm < 2500 THEN <<50>>
         ELSE IF pe_ttm < 3500 THEN <<35>>
         ELSE <<20>>
    ELSE <<>>

\* lines 220-228
pe_forward_scores(pe_forward) ==
    IF Truthy(pe_forward) /\ pe_forward > 0
    THEN IF pe_forward < 1200 THEN <<85>>
         ELSE IF pe_forward < 1800 THEN <<70>>
         ELSE IF pe_forward < 2500 THEN <<50>>
         ELSE <<30>>
    ELSE <<>>

\* lines 231-241
peg_ratio_scores(peg_ratio) ==
    IF Truthy(peg_ratio) /\ peg_ratio > 0
    THEN IF peg_ratio < 50 THEN <<95>>
         ELSE IF peg_ratio < 100 THEN <<80>>
         ELSE IF peg_ratio < 150 THEN <<60>>
         ELSE IF peg_ratio < 200 THEN <<40>>
         ELSE <<20>>
    ELSE <<>>

\* lines 244-254
ev_to_ebitda_scores(ev_to_ebitda) ==
    IF Truthy(ev_to_ebitda) /\ ev_to_ebitda > 0
    THEN IF ev_to_ebitda < 800 THEN <<85>>
         ELSE IF ev_to_ebitda < 1200 THEN <<70>>
         ELSE IF ev_to_ebitda < 1600 THEN <<55>>
         ELSE IF ev_to_ebitda < 2000 THEN <<40>>
         ELSE <<25>>
    ELSE <<>>

\* lines 257-269: fcf_yield is a percentage, held as the ratio num / den
fcf_yield_scores(fcf_yield) ==
    IF fcf_yield # NoRatio /\ fcf_yield.num # 0
    THEN IF RatioGt(fcf_yield, 8, 1) THEN <<90>>
         ELSE IF RatioGt(fcf_yield, 5, 1) THEN <<75>>
         ELSE IF RatioGt(fcf_yield, 3, 1) THEN <<60>>
         ELSE IF RatioGt(fcf_yield, 1, 1) THEN <<45>>
         ELSE IF RatioGt(fcf_yield, 0, 1) THEN <<35>>
         ELSE <<20>>
    ELSE <<>>

\* lines 272-280
price_to_book_scores(price_to_book) ==
    IF Truthy(price_to_book) /\ price_to_book > 0
    THEN IF price_to_book < 100 THEN <<90>>
         ELSE IF price_to_book < 200 THEN <<70>>
         ELSE IF price_to_book < 400 THEN <<50>>
         ELSE <<30>>
    ELSE <<>>

\* a faulty variant of assessment_scores: a metric without a score is
\* counted as 50
assessment_scores_defaulted(pe_ttm, pe_forward, peg_ratio, price_to_book, ev_to_ebitda, fcf_yield) ==
    LET or50(x) == IF x = <<>> THEN <<50>> ELSE x
    IN  or50(pe_ttm_scores(pe_ttm)) \o or50(pe_forward_scores(pe_forward))
          \o or50(peg_ratio_scores(peg_ratio)) \o or50(ev_to_ebitda_scores(ev_to_ebitda))
          \o or50(fcf_yield_scores(fcf_yield)) \o or50(price_to_book_scores(price_to_book))

\* lines 202-280: the list `scores`
assessment_scores(pe_ttm, pe_forward, peg_ratio, price_to_book, ev_to_ebitda, fcf_yield) ==
    pe_ttm_scores(pe_ttm) \o pe_forward_scores(pe_forward)
      \o peg_ratio_scores(peg_ratio) \o ev_to_ebitda_scores(ev_to_ebitda)
      \o fcf_yield_scores(fcf_yield) \o price_to_book_scores(price_to_book)

\* lines 289-294: the label of a score in tenths
valuation_label_of(valuation_score) ==
    IF valuation_score >= 700 THEN "Undervalued"
    ELSE IF valuation_score >= 450 THEN "Fair Value"
    ELSE "Overvalued"

\* _calculate_valuation_assessment; price_to_fcf is accepted and not used
calculate_valuation_assessment(pe_ttm, pe_forward, peg_ratio, price_to_book, ev_to_ebitda, fcf_yield, price_to_fcf) ==
    LET scores_ == assessment_scores(pe_ttm, pe_forward, peg_ratio, price_to_book,
                                     ev_to_ebitda, fcf_yield)
        valuation_score == IF scores_ # <<>>
                           THEN RoundDiv(SumOver(scores_, 1, Len(scores_)) * 10, Len(scores_))
                           ELSE 500
    IN  [valuation_score |-> valuation_score,
         valuation_label |-> valuation_label_of(valuation_score)]

\* _safe_round(value, 2) of a ratio, in hundredths
safe_round(r) == IF r = NoRatio THEN None ELSE RoundDiv(r.num * 100, r.den)

\* lines 61-163: the record built from the info dict
valuation_of(ticker, info) ==
    LET current_price      == Or(Get(info, "currentPrice"), GetOr(info, "regularMarketPrice", 0))
        market_cap         == GetOr(info, "marketCap", 0)
        enterprise_value   == GetOr(info, "enterpriseValue", 0)
        shares_outstanding == GetOr(info, "sharesOutstanding", 0)
        pe_ttm        == Get(info, "trailingPE")
        pe_forward    == Get(info, "forwardPE")
        peg_ratio     == Get(info, "pegRatio")
        price_to_book == Get(info, "priceToBook")
        ev_to_ebitda  == Get(info, "enterpriseToEbitda")
        free_cash_flow == GetOr(info, "freeCashflow", 0)
        fcf_yield     == IF Truthy(free_cash_flow) /\ Truthy(market_cap) /\ market_cap > 0
                         THEN [num |-> free_cash_flow * 100, den |-> market_cap]
                         ELSE NoRatio
        fcf_per_share == IF Truthy(free_cash_flow) /\ Truthy(shares_outstanding)
                            /\ shares_outstanding > 0
                         THEN [num |-> free_cash_flow, den |-> shares_outstanding]
                         ELSE NoRatio
        \* current_price is in hundredths, so the quotient is in hundredths
        price_to_fcf  == IF fcf_per_share # NoRatio /\ fcf_per_share.num > 0
                            /\ Truthy(current_price)
                         THEN [num |-> current_price * fcf_per_share.den,
                               den |-> 100 * fcf_per_share.num]
                         ELSE NoRatio
        ev_to_fcf     == IF Truthy(enterprise_value) /\ Truthy(free_cash_flow)
                            /\ free_cash_flow > 0
                         THEN safe_div(enterprise_value, free_cash_flow)
                         ELSE NoRatio
        earnings_yield == IF Truthy(pe_ttm) /\ pe_ttm > 0
                          THEN [num |-> 100 * 100, den |-> pe_ttm]
                          ELSE NoRatio
        assessment    == calculate_valuation_assessment(pe_ttm, pe_forward, peg_ratio,
                             price_to_book, ev_to_ebitda, fcf_yield, price_to_fcf)
        has_data      == Truthy(pe_ttm) \/ Truthy(pe_forward) \/ Truthy(ev_to_ebitda)
                            \/ fcf_yield # NoRatio
    IN  [status           |-> IF has_data THEN "success" ELSE "partial",
         ticker           |-> ticker,
         current_price    |-> current_price,
         market_cap       |-> market_cap,
         enterprise_value |-> enterprise_value,
         pe_ttm           |-> pe_ttm,
         pe_forward       |-> pe_forward,
         peg_ratio        |-> peg_ratio,
         price_to_book    |-> price_to_book,
         price_to_sales   |-> Get(info, "priceToSalesTrailing12Months"),
         ev_to_ebitda     |-> ev_to_ebitda,
         ev_to_revenue    |-> Get(info, "enterpriseToRevenue"),
         ev_to_fcf        |-> safe_round(ev_to_fcf),
         free_cash_flow   |-> free_cash_flow,
         fcf_yield        |-> safe_round(fcf_yield),
         fcf_per_share    |-> safe_round(fcf_per_share),
         price_to_fcf     |-> safe_round(price_to_fcf),
         earnings_yield   |-> safe_round(earnings_yield),
         \* the fractions of the info dict times 100: percentages
         dividend_yield   |-> Get(info, "dividendYield"),
         payout_ratio     |-> Get(info, "payoutRatio"),
         valuation_label  |-> assessment.valuation_label,
         valuation_score  |-> assessment.valuation_score]

\* get_valuation_metrics: the record returned, and the singleton afterwards.
\* Any exception of the body is caught and answered with the error record.
get_valuation_metrics(instance, ticker, clock, remote) ==
    LET got == get_info(instance, ticker, clock, remote)
    IN  IF got.kind = "ok"
        THEN [value |-> valuation_of(ticker, got.value), instance |-> got.instance]
        ELSE [value    |-> [status |-> "error", ticker |-> ticker,
                            valuation_label |-> "Unknown", valuation_score |-> 500],
              instance |-> got.instance]

(***************************************************************************)
(* price_tools.py: get_price_history; crewai_tools.py: the tool            *)
(* compute_investment_scores; schemas: AnalystOutput and ReportOutput.     *)
(***************************************************************************)
\* line 58: the fewest rows get_price_history accepts
MinHistoryRows == 50

\* get_price_history(ticker) when the provider's get_history raises
\* (h.fails) or returns the frame h.df.  The frame's columns are held as
\* they are after reset_index and lower-casing (lines 34-37).
get_price_history(tk, h) ==
    IF tk = "" THEN [kind |-> "PriceHistoryError"]
    ELSE IF h.fails THEN [kind |-> "PriceHistoryError"]
    ELSE IF h.df.rows = 0 \/ h.df.columns = {}
    THEN [kind |-> "PriceHistoryError"]
    ELSE LET columns == IF "date" \notin h.df.columns /\ "datetime" \in h.df.columns
                        THEN (h.df.columns \ {"datetime"}) \cup {"date"}
                        ELSE h.df.columns
         IN  IF "date" \notin columns THEN [kind |-> "PriceHistoryError"]
             ELSE IF ~({"open", "high", "low", "close", "volume", "date"} \subseteq columns)
             THEN [kind |-> "PriceHistoryError"]
             ELSE IF h.df.rows < MinHistoryRows THEN [kind |-> "PriceHistoryError"]
             ELSE [kind  |-> "ok",
                   value |-> [h.df EXCEPT
                                !.columns = {"date", "open", "high", "low", "close", "volume"}]]

\* a quotient as a number in hundredths, rounded down: the scoring bands
\* that test `>=` or `<` against a multiple of 0.01 read it exactly
ratio_floor(r) == IF r = NoRatio THEN None ELSE (r.num * 100) \div r.den

\* the same rounded up, for the bands that test `<=`
ratio_ceil(r) == IF r = NoRatio THEN None ELSE 0 - ((0 - r.num * 100) \div r.den)

\* the value of (end / start) ** (1 / 3) - 1 for a negative quotient: a
\* complex number
Complex == 0 - 3000000

\* _cagr's value in hundredths, rounded down: the h with
\* (1 + h/100)^3 <= end / start < (1 + (h + 1)/100)^3
cagr_floor(c) ==
    IF c = NoCagr THEN None
    ELSE IF (c.start < 0) # (c.end < 0) THEN Complex
    ELSE LET q == (Abs(c.end) * 1000000) \div Abs(c.start)
         IN  CHOOSE h \in (0 - 100) .. 900 :
                /\ (100 + h) * (100 + h) * (100 + h) <= q
                /\ (101 + h) * (101 + h) * (101 + h) > q

\* the dict compute_fundamental_metrics returned, as compute_factor_scores
\* reads it: the fields it scores, in hundredths
scored_metrics(m) ==
    [growth |->
        [revenue_cagr_3y |-> cagr_floor(m.growth.revenue_cagr_3y),
         eps_cagr_3y     |-> cagr_floor(m.growth.eps_cagr_3y),
         revenue_yoy     |-> ratio_floor(m.growth.revenue_yoy)],
     profitability |->
        [roe              |-> ratio_floor(m.profitability.roe),
         operating_margin |-> ratio_floor(m.profitability.operating_margin)],
     financial_health |->
        [debt_equity       |-> ratio_ceil(m.financial_health.debt_equity),
         interest_coverage |-> ratio_floor(m.financial_health.interest_coverage)]]

\* the dict compute_technical_indicators returned, as compute_factor_scores
\* reads it: the drawdown (never positive) in hundredths
scored_technicals(t) ==
    [rsi14           |-> t.rsi14,
     trend_label     |-> t.trend_label,
     max_drawdown_1y |-> 0 - ((0 - t.max_drawdown_1y) \div 100)]

\* the tool's except branch: json.dumps({"status": "error", "message": str(e)});
\* the message is identified by the class of the exception
tool_error(outcome) == [status |-> "error", message |-> outcome.kind]

\* compute_investment_scores(ticker, sector, sentiment_adjustment): the
\* decoded JSON it returns, when Yahoo answers the history request with `h`
\* and the statement requests with `p`
compute_investment_scores(tk, sec, adj, h, p, day) ==
    LET price      == get_price_history(tk, h)
        technicals == compute_technical_indicators(price.value)
        raw        == get_fundamentals(tk, p)
        computed   == compute_fundamental_metrics(raw.value)
        bench      == get_sector_benchmarks(tk, sec, day)
        m          == scored_metrics(computed.value)
    IN  IF price.kind # "ok" THEN tool_error(price)
        ELSE IF technicals.kind # "ok" THEN tool_error(technicals)
        ELSE IF raw.kind # "ok" THEN tool_error(raw)
        ELSE IF computed.kind # "ok" THEN tool_error(computed)
        ELSE IF bench.kind # "ok" THEN tool_error(bench)
        \* a complex CAGR cannot be compared with the band edges
        ELSE IF Complex \in {m.growth.revenue_cagr_3y, m.growth.eps_cagr_3y}
        THEN tool_error([kind |-> "TypeError"])
        ELSE [status |-> "success",
              ticker |-> tk,
              sector |-> sec,
              scores |-> compute_factor_scores(m, scored_technicals(technicals.value),
                                               bench.value, adj),
              technical_indicators |-> technicals.value,
              fundamental_metrics  |-> computed.value,
              sector_benchmarks    |-> bench.value]

\* the provider singleton after the tool has run: the cache entry of the
\* ticker exists once get_history was reached
provider_after_tool(instance, tk, clock) ==
    IF tk = "" THEN instance
    ELSE [created |-> TRUE,
          cache   |-> get_or_create_cache(get_yfinance_provider(instance).cache, tk, clock)]

\* a JSON null where a dict is expected
NullDict == [is_null |-> TRUE]

Ratings == {"STRONG BUY", "BUY", "HOLD", "REDUCE", "SELL"}

\* a float field with ge=0, le=100 and a default
score_field_valid(d, k) == k \notin DOMAIN d \/ (d[k] # None /\ d[k] >= 0 /\ d[k] <= 100 * Scale)

ScoreFields ==
    {"valuation_score", "growth_score", "profitability_score", "financial_health_score",
     "technical_score", "final_score"}

\* InvestmentScores(**d): every score defaults to 50.0, the rating to "HOLD"
InvestmentScores(d) ==
    IF /\ \A k \in ScoreFields : score_field_valid(d, k)
       /\ "composite_score" \in DOMAIN d =>
             (d.composite_score = None
                \/ (d.composite_score >= 0 /\ d.composite_score <= 100 * Scale))
       /\ "rating" \in DOMAIN d => d.rating \in Ratings
    THEN [kind  |-> "ok",
          value |-> [valuation_score        |-> GetOr(d, "valuation_score", 50 * Scale),
                     growth_score           |-> GetOr(d, "growth_score", 50 * Scale),
                     profitability_score    |-> GetOr(d, "profitability_score", 50 * Scale),
                     financial_health_score |-> GetOr(d, "financial_health_score", 50 * Scale),
                     technical_score        |-> GetOr(d, "technical_score", 50 * Scale),
                     composite_score        |-> GetOr(d, "composite_score", None),
                     final_score            |-> GetOr(d, "final_score", 50 * Scale),
                     rating                 |-> IF "rating" \in DOMAIN d THEN d.rating
                                                ELSE "HOLD"]]
    ELSE [kind |-> "ValidationError"]

\* AnalystOutput.replace_none_with_defaults, for the scores
replace_none_with_defaults(data) ==
    IF "scores" \notin DOMAIN data \/ data.scores = NullDict
    THEN update(data, [scores |-> EmptyDict])
    ELSE data

\* AnalystOutput.model_validate(data), as far as ticker, sector and scores
AnalystOutput(data) ==
    LET d == replace_none_with_defaults(data)
        validated_scores == InvestmentScores(d.scores)
    IN  IF "ticker" \notin DOMAIN d THEN [kind |-> "ValidationError"]
        ELSE IF validated_scores.kind # "ok" THEN [kind |-> "ValidationError"]
        ELSE [kind  |-> "ok",
              value |-> [ticker |-> d.ticker,
                         sector |-> IF "sector" \in DOMAIN d THEN d.sector ELSE "Unknown",
                         scores |-> validated_scores.value]]

\* ReportOutput.model_validate(data), as far as ticker, sector, final_score
\* and rating_5_tier
ReportOutput(data) ==
    IF "ticker" \notin DOMAIN data THEN [kind |-> "ValidationError"]
    ELSE IF ~score_field_valid(data, "final_score") THEN [kind |-> "ValidationError"]
    ELSE IF "rating_5_tier" \in DOMAIN data /\ data.rating_5_tier \notin Ratings
    THEN [kind |-> "ValidationError"]
    ELSE [kind  |-> "ok",
          value |-> [ticker        |-> data.ticker,
                     sector        |-> IF "sector" \in DOMAIN data THEN data.sector
                                       ELSE "Unknown",
                     final_score   |-> GetOr(data, "final_score", 50 * Scale),
                     rating_5_tier |-> IF "rating_5_tier" \in DOMAIN data
                                       THEN data.rating_5_tier ELSE "HOLD"]]

(***************************************************************************)
(* The ChromaDB memory: tools/chroma_save_tools.py and                     *)
(* tools/chroma_retrieve_tools.py, and app_service_new.py, which caches    *)
(* reports in it.  The collection maps a document id to the JSON document  *)
(* and the metadata stored under it.  A dict of the program is a function  *)
(* from its keys to the text of its values ("None" for None); a JSON       *)
(* object is a function from its keys to the JSON text of its values.      *)
(* Time is counted in ticks of the UTC clock, TicksPerDay to the day.      *)
(***************************************************************************)
TicksPerDay == 2

PyNone == "None"

JsonNull == "null"

\* a datetime.date held by a dict that is saved, and str() of it
DateObject == "datetime.date(2026, 1, 1)"

DateString == "2026-01-01"

\* json.dumps(content, default=str), chroma_save_tools.py line 57: one value
json_dumps_value(v) ==
    IF v = PyNone THEN JsonNull
    ELSE IF v = DateObject THEN DateString
    ELSE v

json_dumps(content) == [k \in DOMAIN content |-> json_dumps_value(content[k])]

\* json.loads(doc), chroma_retrieve_tools.py line 73
json_loads_value(j) == IF j = JsonNull THEN PyNone ELSE j

json_loads(doc) == [k \in DOMAIN doc |-> json_loads_value(doc[k])]

\* now.date() of a clock reading
utc_date(clock) == clock \div TicksPerDay

\* chroma_save_tools.py line 44: f"{ticker}:{artifact_type}:{now.date().isoformat()}"
doc_id(tk, artifact_type, clock) ==
    tk \o ":" \o artifact_type \o ":" \o ToString(utc_date(clock))

\* a faulty variant of upsert that adds a document when the id is taken
upsert_adding(coll, id, document, metadata) ==
    LET free == IF id \in DOMAIN coll THEN id \o "#" \o ToString(metadata.created_at)
                ELSE id
    IN  [k \in DOMAIN coll \cup {free} |->
            IF k = free THEN [document |-> document, metadata |-> metadata] ELSE coll[k]]

\* collection.upsert, as chroma_save_tools.py lines 56-60 call it: the id is
\* added, or its document is replaced and its metadata keys are overwritten
upsert(coll, id, document, metadata) ==
    [k \in DOMAIN coll \cup {id} |->
        IF k = id
        THEN [document |-> document,
              metadata |-> IF id \in DOMAIN coll
                           THEN update(coll[id].metadata, metadata)
                           ELSE metadata]
        ELSE coll[k]]

\* chroma_save_tools.py lines 38-60; the collection after the call
save_to_chroma(coll, tk, artifact_type, content, metadata, ttl_days, clock) ==
    LET expires_at == clock + ttl_days * TicksPerDay
        full_metadata ==
            update(metadata, [ticker        |-> tk,
                              artifact_type |-> artifact_type,
                              created_at    |-> clock,
                              expires_at    |-> expires_at])
    IN  upsert(coll, doc_id(tk, artifact_type, clock), json_dumps(content), full_metadata)

\* collection.get(where=...), chroma_retrieve_tools.py lines 24-31
collection_get(coll, tk, artifact_type) ==
    {id \in DOMAIN coll : /\ coll[id].metadata.ticker = tk
                          /\ coll[id].metadata.artifact_type = artifact_type}

\* a faulty variant of retrieve_candidates that never looks at the expiry
retrieve_candidates_unfiltered(coll, tk, artifact_type, allow_expired, clock) ==
    collection_get(coll, tk, artifact_type)

\* chroma_retrieve_tools.py lines 39-56: the documents that may be returned
retrieve_candidates(coll, tk, artifact_type, allow_expired, clock) ==
    {id \in collection_get(coll, tk, artifact_type) :
        allow_expired \/ coll[id].metadata.expires_at >= clock}

\* a faulty variant of unpack_candidate: the record of the previous version,
\* which the comment at lines 68-71 describes
unpack_candidate_wrapped(doc, meta) ==
    [content |-> json_loads(doc), metadata |-> meta]

\* chroma_retrieve_tools.py lines 65-85: the content itself, with the
\* artifact's created_at added under "_meta_created_at"
unpack_candidate(doc, meta) ==
    LET content_dict == json_loads(doc)
    IN  IF "_meta_created_at" \notin DOMAIN content_dict
        THEN update(content_dict,
                    [k \in {"_meta_created_at"} |-> ToString(meta.created_at)])
        ELSE content_dict

\* chroma_retrieve_tools.py lines 9-89; NullDict for None
retrieve_from_chroma(coll, tk, artifact_type, allow_expired, clock) ==
    LET results    == collection_get(coll, tk, artifact_type)
        candidates == retrieve_candidates(coll, tk, artifact_type, allow_expired, clock)
    IN  IF results = {} THEN NullDict
        ELSE IF candidates = {} THEN NullDict
        ELSE LET latest ==
                     CHOOSE id \in candidates :
                         \A o \in candidates :
                             coll[o].metadata.created_at <= coll[id].metadata.created_at
             IN  unpack_candidate(coll[latest].document, coll[latest].metadata)

IsNone(d) == "is_null" \in DOMAIN d

\* bool(d) of a dict or None
TruthyDict(d) == ~IsNone(d) /\ DOMAIN d # {}

\* d.get(k) of a dict of texts
get_text(d, k) == GetOr(d, k, PyNone)

ReportTtlDays == 7

\* a faulty variant of cache_is_valid that trusts any cached record
cache_is_valid_unchecked(cached_result) == TruthyDict(cached_result)

\* app_service_new.py line 49: the test a cached record must pass
cache_is_valid(cached_result) ==
    TruthyDict(cached_result) /\ get_text(cached_result, "final_score") # PyNone

\* app_service_new.py lines 17-157.  sectors is what detect_sector answers,
\* crew_run how crew.run ends (kind "ok" with its result dict, "timeout" or
\* "raise"), env which of the two calls to the memory fail.  The lookup
\* reads the clock at `clock`, the save one tick later.
run_full_research(coll, tk, force_refresh, sectors, crew_run, env, clock) ==
    LET cached_result ==
            IF force_refresh \/ env.lookup_fails THEN NullDict
            ELSE retrieve_from_chroma(coll, tk, "report", FALSE, clock)
        enriched(d, status, hit) ==
            update(d, [sector         |-> sectors.mapped,
                       raw_sector     |-> sectors.raw,
                       execution_info |-> status,
                       cache_hit      |-> hit])
        timed_out ==
            [ticker         |-> tk,
             sector         |-> sectors.mapped,
             raw_sector     |-> sectors.raw,
             error          |-> "Analysis timed out",
             execution_info |-> "timeout"]
        failed ==
            [ticker         |-> tk,
             error          |-> "Analysis failed",
             error_type     |-> "Exception",
             execution_info |-> "error"]
    IN  IF ~force_refresh /\ ~env.lookup_fails /\ cache_is_valid(cached_result)
        THEN [returned   |-> enriched(cached_result, "success (cached)", "True"),
              collection |-> coll]
        ELSE IF crew_run.kind = "timeout"
        THEN [returned |-> timed_out, collection |-> coll]
        ELSE IF crew_run.kind = "raise"
        THEN [returned |-> failed, collection |-> coll]
        ELSE LET result == enriched(crew_run.result, "success", "False")
             IN  [returned   |-> result,
                  collection |->
                      IF get_text(result, "final_score") # PyNone /\ ~env.save_fails
                      THEN save_to_chroma(coll, tk, "report", result,
                                          [sector |-> sectors.mapped,
                                           rating |-> GetOr(result, "rating_5_tier",
                                                            "Unknown"),
                                           score  |-> GetOr(result, "final_score", "0"),
                                           source |-> "FinResearchCrew"],
                                          ReportTtlDays, clock + 1)
                      ELSE coll]

(***************************************************************************)
(* yfinance_provider.py under concurrent callers.  A CachedTickerData is   *)
(* an object: the provider's cache maps an upper-cased ticker to the       *)
(* object it holds now, and a caller keeps the reference it was handed     *)
(* while it checks, fetches and stores outside the lock.  The objects      *)
(* ever created are kept in a sequence and named by their position.  A     *)
(* data kind is "info", or a history key such as "1y_1d"; a value is the   *)
(* version of Yahoo's answer it was fetched from.                          *)
(***************************************************************************)
\* _info is None, or the key is not in _history
Unfetched == 0

DataKinds == {"info", "1y_1d"}

\* CachedTickerData(ticker=ticker), lines 18-32: nothing fetched
CachedTickerData(tk, clock) ==
    [ticker |-> tk, created_at |-> clock, data |-> [kind \in DataKinds |-> Unfetched]]

\* _get_or_create_cache, lines 62-78, on objects: the cache, the objects and
\* the reference returned.  The body runs under self._lock.
locked_get_or_create_cache(cache, entries, t, clock) ==
    LET tk == Upper(t)
    IN  IF tk \in DOMAIN cache /\ ~is_expired(entries[cache[tk]], clock)
        THEN [cache |-> cache, entries |-> entries, cached |-> cache[tk]]
        ELSE LET created == Len(entries) + 1
             IN  [cache   |-> [k \in DOMAIN cache \cup {tk} |->
                                  IF k = tk THEN created ELSE cache[k]],
                  entries |-> Append(entries, CachedTickerData(tk, clock)),
                  cached  |-> created]

\* clear_cache, lines 168-174; NoneLabel for no argument.  Runs under
\* self._lock.
clear_cache(cache, t) ==
    IF t # NoneLabel /\ t # ""
    THEN [k \in DOMAIN cache \ {Upper(t)} |-> cache[k]]
    ELSE EmptyDict

(***************************************************************************)
(* yan-cotta/src/api.py: the asynchronous research tasks.  task_store      *)
(* maps a task id to its ResearchTask.  The background coroutine           *)
(* execute_research_task runs on the event loop in two steps, before and   *)
(* after it awaits the research run, which runs in a thread of the         *)
(* executor.  A datetime is a reading of the clock, None if unset; an      *)
(* unset string is NoneLabel.                                              *)
(***************************************************************************)
PENDING == "pending"

RUNNING == "running"

COMPLETED == "completed"

FAILED == "failed"

\* ResearchTask(task_id=..., ticker=..., status=TaskStatus.PENDING), lines
\* 110-123
ResearchTask(task_id, tk, clock) ==
    [task_id       |-> task_id,
     ticker        |-> tk,
     status        |-> PENDING,
     created_at    |-> clock,
     started_at    |-> None,
     completed_at  |-> None,
     progress_logs |-> <<>>,
     report        |-> NoneLabel,
     error_message |-> NoneLabel]

\* execute_research_task up to its await, lines 316-328
task_started(task, request, clock) ==
    [task EXCEPT !.status = RUNNING,
                 !.started_at = clock,
                 !.progress_logs =
                     @ \o <<"Starting research">>
                       \o (IF request.reset_memory THEN <<"Clearing memory...">> ELSE <<>>)
                       \o <<"Executing agent workflow...">>]

\* a faulty variant of task_after_run that does not stamp a failed task
task_after_run_unstamped(task, run, clock) ==
    IF run.state = "returned"
    THEN [task EXCEPT !.status = COMPLETED, !.completed_at = clock, !.report = run.report]
    ELSE [task EXCEPT !.status = FAILED, !.error_message = run.error]

\* execute_research_task after its await, lines 335-350: the run returned
\* (report, execution_result), or raised
task_after_run(task, run, clock) ==
    IF run.state = "returned"
    THEN [task EXCEPT !.status = COMPLETED,
                      !.completed_at = clock,
                      !.report = run.report,
                      !.progress_logs =
                          @ \o <<"Research completed successfully!">>
                            \o (IF run.duration_seconds # None /\ run.duration_seconds # 0
                                THEN <<"Duration">> ELSE <<>>)]
    ELSE [task EXCEPT !.status = FAILED,
                      !.completed_at = clock,
                      !.error_message = run.error,
                      !.progress_logs = @ \o <<"Error">>]

(***************************************************************************)
(* State.  The calculators are pure functions, so the state is one call    *)
(* of each: its arguments, where it stands, and what it returned or        *)
(* raised.                                                                 *)
(***************************************************************************)
VARIABLES
    \* compute_factor_scores
    fundamental_metrics,   \* argument: dict with growth/profitability/... sub-dicts
    technical_indicators,  \* argument: dict with rsi14, trend_label, max_drawdown_1y, ...
    sector_benchmarks,     \* argument: dict, EmptyDict for None
    sentiment_adjustment,  \* argument: a number in 1/Scale points
    locals,                \* the call's unrounded local variables at its return
    scores,                \* the returned record, EmptyDict before the call returns
    pc,                    \* "idle", "call" before and "done" after the call
    \* get_fundamentals -> compute_fundamental_metrics
    ticker,                \* argument of get_fundamentals
    provider,              \* what the data provider holds for the ticker
    fundamentals,          \* argument of compute_fundamental_metrics
    metrics,               \* its outcome: the dict returned or the exception raised
    pcF,                   \* "idle", "fetch", "compute", "done"
    \* compute_technical_indicators
    price_df,              \* argument: the price frame
    indicators,            \* its outcome
    pcT,                   \* "idle", "call", "done"
    \* the analyst's tools and the validation of the agents' outputs
    sector,                \* argument: the sector name, NoneLabel for None
    today,                 \* date.today().isoformat() during the call
    benchmarks,            \* outcome of get_sector_benchmarks
    pcA,                   \* "idle", "sector", "tool", "analyst", "reporter", "done"
    history,               \* what Yahoo answers to the price-history request
    tool_result,           \* the decoded JSON compute_investment_scores returned
    analyst_output,        \* outcome of validating the analyst's answer
    report_output,         \* outcome of validating the reporter's answer
    \* get_valuation_metrics and the process around it
    provider_instance,     \* yfinance_provider._provider_instance
    yf_info,               \* what Yahoo answers to an info request now
    now,                   \* datetime.now(), in minutes
    valuation,             \* the record the last call returned
    first_valuation,       \* the record the first call returned
    calls,                 \* the calls made so far
    pcV,                   \* "idle", "ready"
    \* the ChromaDB memory and run_full_research
    collection,            \* the "finresearch_memory" collection: id -> document, metadata
    utc_clock,             \* datetime.now(timezone.utc), in ticks
    op,                    \* the last call: its name, its arguments, when it read the clock
    prev_op,               \* the call before it
    retrieved,             \* what the last retrieve_from_chroma returned, NullDict for None
    served,                \* what the last run_full_research returned
    \* the YFinanceProvider and its concurrent callers
    provider_cache,        \* self._cache: upper-cased ticker -> the object held
    cache_entries,         \* the CachedTickerData objects created so far
    callers,               \* per thread: where its call stands and its locals
    wall_clock,            \* datetime.now(), in minutes
    yahoo,                 \* the version of the data Yahoo serves now
    fetch_count,           \* per object and data kind: the yfinance fetches made
    observed,              \* per object and data kind: the values callers were returned
    lookups,               \* the calls made so far
    \* the asynchronous research tasks of api.py
    task_store,            \* task id -> ResearchTask
    requests,              \* task id -> the request its background task was given
    executions,            \* task id -> where its research run stands, and its outcome
    api_clock,             \* datetime.now(), in ticks
    api_response           \* what the last request to the API was answered

scoring_vars == <<fundamental_metrics, technical_indicators, sector_benchmarks,
                  sentiment_adjustment, locals, scores, pc>>

fundamentals_vars == <<ticker, provider, fundamentals, metrics, pcF>>

technicals_vars == <<price_df, indicators, pcT>>

analyst_vars == <<sector, today, benchmarks, pcA, history, tool_result, analyst_output,
                  report_output>>

valuation_vars == <<provider_instance, yf_info, now, valuation, first_valuation, calls, pcV>>

memory_vars == <<collection, utc_clock, op, prev_op, retrieved, served>>

concurrent_vars ==
    <<provider_cache, cache_entries, callers, wall_clock, yahoo, fetch_count, observed,
      lookups>>

task_vars == <<task_store, requests, executions, api_clock, api_response>>

vars ==
    <<scoring_vars, fundamentals_vars, technicals_vars, analyst_vars, valuation_vars,
      memory_vars, concurrent_vars, task_vars>>

NoProvider ==
    [fails |-> FALSE, income_stmt |-> NoneFrame, balance_sheet |-> NoneFrame,
     cash_flow |-> NoneFrame]

NoOutcome == [kind |-> "none"]

NoPriceFrame == [columns |-> {}, rows |-> 0, close |-> <<>>, high |-> <<>>, low |-> <<>>]

NoHistory == [fails |-> FALSE, df |-> NoPriceFrame]

ScoringIdle ==
    /\ fundamental_metrics = EmptyDict
    /\ technical_indicators = EmptyDict
    /\ sector_benchmarks = EmptyDict
    /\ sentiment_adjustment = 0
    /\ locals = EmptyDict
    /\ scores = EmptyDict
    /\ pc = "idle"

FundamentalsIdle ==
    /\ ticker = ""
    /\ provider = NoProvider
    /\ fundamentals = EmptyDict
    /\ metrics = NoOutcome
    /\ pcF = "idle"

TechnicalsIdle ==
    /\ price_df = NoPriceFrame
    /\ indicators = NoOutcome
    /\ pcT = "idle"

AnalystIdle ==
    /\ sector = NoneLabel
    /\ today = ""
    /\ benchmarks = NoOutcome
    /\ pcA = "idle"
    /\ history = NoHistory
    /\ tool_result = EmptyDict
    /\ analyst_output = NoOutcome
    /\ report_output = NoOutcome

ValuationIdle ==
    /\ provider_instance = NoInstance
    /\ yf_info = EmptyDict
    /\ now = 0
    /\ valuation = EmptyDict
    /\ first_valuation = EmptyDict
    /\ calls = 0
    /\ pcV = "idle"

NoEnv == [lookup_fails |-> FALSE, save_fails |-> FALSE]

NoOp ==
    [name |-> "none", ticker |-> "", artifact_type |-> "", content |-> EmptyDict,
     ttl_days |-> 0, allow_expired |-> FALSE, force_refresh |-> FALSE, at |-> 0]

\* the threads that call the provider
Threads == {"worker-1", "worker-2"}

\* a thread that is not inside a call
NoCall == [pc |-> "idle", ticker |-> "", kind |-> "", cached |-> 0, value |-> Unfetched]

ConcurrentIdle ==
    /\ provider_cache = EmptyDict
    /\ cache_entries = <<>>
    /\ callers = [t \in Threads |-> NoCall]
    /\ wall_clock = 0
    /\ yahoo = 1
    /\ fetch_count = <<>>
    /\ observed = <<>>
    /\ lookups = 0

NoResponse == [code |-> 0]

TaskIdle ==
    /\ task_store = EmptyDict
    /\ requests = EmptyDict
    /\ executions = EmptyDict
    /\ api_clock = 0
    /\ api_response = NoResponse

MemoryIdle ==
    /\ collection = EmptyDict
    /\ utc_clock = 0
    /\ op = NoOp
    /\ prev_op = NoOp
    /\ retrieved = NullDict
    /\ served = NullDict

(***************************************************************************)
(* The inputs the model draws.  Every band edge of every bucket function   *)
(* is sampled on both sides; the missing, falsy (0, "") and negative       *)
(* values are sampled too.                                                 *)
(***************************************************************************)
\* whole-point sentiment adjustments run over -MaxAdj .. MaxAdj
MaxAdj == 7

\* adjustments with a fractional part, in thousandths of a point
AdjFractions == {0 - 5004, 0 - 4996, 1234, 2830, 4996, 5004}

AdjSamples ==
    {k * Scale : k \in (0 - MaxAdj) .. MaxAdj}
        \cup {(x * Scale) \div 1000 : x \in AdjFractions}

PESamples == {None, 0 - 500, 0, 900, 1000, 1400, 1800, 2400, 3000, 3500, 6000}

ForwardPESamples == {None, 0, 1200}

PEGSamples == {None, 0 - 50, 0, 90, 100, 140, 150, 200, 220, 250, 300}

\* the nested "valuation" dict: absent, or overriding / adding keys
NestedValuationSamples ==
    {EmptyDict,
     [valuation |-> [pe |-> 1200]],
     [valuation |-> [pe_ttm |-> None, trailing_pe |-> 4000]],
     [valuation |-> [pe_forward |-> 800, peg_ratio |-> 90]]}

BenchmarkSamples ==
    {EmptyDict,
     [sector_pe_median |-> 2000],
     [sector_pe |-> 1000, pe_median |-> 2000],
     [pe_median |-> 0],
     [sector |-> 1, source |-> 1]}

ValuationSamples ==
    {update(update(update([pe_ttm |-> a], [forward_pe |-> b]), [peg_ratio |-> c]), n) :
        a \in PESamples, b \in ForwardPESamples, c \in PEGSamples,
        n \in NestedValuationSamples}

GrowthSamples ==
    {[growth |-> [revenue_cagr_3y |-> a, eps_cagr_3y |-> b, revenue_yoy |-> c]] :
        a \in {None, 0 - 5, 0, 5, 6, 11, 12, 15, 19, 20, 30},
        b \in {None, 0 - 3, 0, 7, 8, 14, 15, 18, 24, 25},
        c \in {None, 0 - 10, 0, 12, 15, 20, 40}}

ProfitabilitySamples ==
    {[profitability |-> [roe |-> a, operating_margin |-> b]] :
        a \in {None, 0 - 10, 4, 5, 9, 10, 14, 15, 22, 24, 25, 40},
        b \in {None, 0 - 5, 0, 9, 10, 19, 20, 28, 29, 30}}

HealthSamples ==
    {[financial_health |-> [debt_equity |-> a, interest_coverage |-> b]] :
        a \in {None, 0 - 20, 0, 30, 31, 40, 60, 61, 100, 101, 200, 201},
        b \in {None, 0 - 100, 0, 99, 100, 299, 300, 599, 600, 800, 999, 1000}}

TrendSamples ==
    {NoneLabel, "", "uptrend", "Uptrend", "sideways", "SIDEWAYS", "downtrend", "flat"}

TechnicalSamples ==
    {[rsi14 |-> a, trend_label |-> b, max_drawdown_1y |-> c] :
        a \in {None, 0, 2999, 3000, 3999, 4000, 5500, 6000, 6001, 7000, 7001, 10000},
        b \in TrendSamples,
        c \in {None, 0, 0 - 5, 0 - 9, 0 - 10, 0 - 18, 0 - 19, 0 - 20, 0 - 34, 0 - 35,
               0 - 60, 12}}
        \cup {[rsi |-> 6500, trend |-> "sideways", max_drawdown |-> 0 - 25],
              [rsi14 |-> 0, rsi_14 |-> 7500, trend_label |-> "", trend |-> "uptrend",
               max_drawdown_1y |-> 0, max_drawdown |-> 0 - 40]}

\* Profiles: for each factor a missing, a strong (the repository's test
\* values), a best, a worst and a 65-point input.
ValuationProfiles ==
    {EmptyDict,
     [pe_ttm |-> 1800],
     [pe_ttm |-> 900, peg_ratio |-> 90],
     [pe_ttm |-> 4000, peg_ratio |-> 300],
     [pe_ttm |-> 0 - 500]}

BenchmarkProfiles == {EmptyDict, [sector_pe_median |-> 2000]}

StrongGrowth ==
    [growth |-> [revenue_cagr_3y |-> 15, eps_cagr_3y |-> 18, revenue_yoy |-> 20]]

GrowthProfiles ==
    {EmptyDict,
     StrongGrowth,
     [growth |-> [revenue_cagr_3y |-> 30, eps_cagr_3y |-> 30, revenue_yoy |-> 40]],
     [growth |-> [revenue_cagr_3y |-> 0 - 5, eps_cagr_3y |-> 0 - 3, revenue_yoy |-> 0 - 10]],
     [growth |-> [revenue_cagr_3y |-> 8, eps_cagr_3y |-> 10]]}

StrongProfitability == [profitability |-> [roe |-> 22, operating_margin |-> 28]]

ProfitabilityProfiles ==
    {EmptyDict,
     StrongProfitability,
     [profitability |-> [roe |-> 40, operating_margin |-> 40]],
     [profitability |-> [roe |-> 0 - 10, operating_margin |-> 0 - 5]],
     [profitability |-> [roe |-> 20]]}

StrongHealth == [financial_health |-> [debt_equity |-> 40, interest_coverage |-> 800]]

HealthProfiles ==
    {EmptyDict,
     StrongHealth,
     [financial_health |-> [debt_equity |-> 10, interest_coverage |-> 1200]],
     [financial_health |-> [debt_equity |-> 300, interest_coverage |-> 0]],
     [financial_health |-> [debt_equity |-> 20, interest_coverage |-> 200]]}

StrongTechnicals == [rsi14 |-> 5500, trend_label |-> "uptrend", max_drawdown_1y |-> 0 - 18]

TechnicalProfiles ==
    {EmptyDict,
     StrongTechnicals,
     [rsi14 |-> 5000, trend_label |-> "uptrend", max_drawdown_1y |-> 0 - 5],
     [rsi14 |-> 2000, trend_label |-> "downtrend", max_drawdown_1y |-> 0 - 60],
     [rsi14 |-> 5000, trend_label |-> "downtrend", max_drawdown_1y |-> 0 - 5]}

\* the rest of the fundamentals while one factor is swept
RestProfiles == {EmptyDict, update(update(StrongGrowth, StrongProfitability), StrongHealth)}

\* every combination of the profiles, under every sampled adjustment
ProfileCalls ==
    /\ fundamental_metrics \in
          {update(update(update(v, g), p), h) :
              v \in ValuationProfiles, g \in GrowthProfiles,
              p \in ProfitabilityProfiles, h \in HealthProfiles}
    /\ technical_indicators \in TechnicalProfiles
    /\ sector_benchmarks \in BenchmarkProfiles
    /\ sentiment_adjustment \in AdjSamples

\* one factor swept over all its samples, the others missing or strong
SweepCalls ==
    /\ \/ /\ fundamental_metrics \in
                {update(r, x) : r \in RestProfiles,
                    x \in GrowthSamples \cup ProfitabilitySamples \cup HealthSamples}
          /\ technical_indicators \in {EmptyDict, StrongTechnicals}
          /\ sector_benchmarks = EmptyDict
       \/ /\ fundamental_metrics \in {update(r, x) : r \in RestProfiles, x \in ValuationSamples}
          /\ technical_indicators = StrongTechnicals
          /\ sector_benchmarks \in BenchmarkSamples
       \/ /\ fundamental_metrics \in RestProfiles
          /\ technical_indicators \in TechnicalSamples
          /\ sector_benchmarks = EmptyDict
    /\ sentiment_adjustment \in {0, 5 * Scale}

\* every factor inside the score bands of the repository's test input
StrongBandCalls ==
    /\ fundamental_metrics \in
          {[growth |-> [revenue_cagr_3y |-> a, eps_cagr_3y |-> b, revenue_yoy |-> c],
            profitability |-> [roe |-> d, operating_margin |-> e],
            financial_health |-> [debt_equity |-> f, interest_coverage |-> g]] :
              a \in {12, 15, 19}, b \in {15, 18, 24}, c \in {None, 0 - 10, 0, 15, 20, 40},
              d \in {15, 22, 24}, e \in {20, 28, 29},
              f \in {31, 40, 60}, g \in {600, 800, 999}}
    /\ technical_indicators \in
          {[rsi14 |-> a, trend_label |-> b, max_drawdown_1y |-> c] :
              a \in {4000, 5500, 6000}, b \in {"uptrend", "Uptrend"},
              c \in {0 - 10, 0 - 18, 0 - 19, 12}}
    /\ sector_benchmarks = EmptyDict
    /\ sentiment_adjustment = 0

\* nothing but nulls: each sub-dict absent, empty, or present with null fields
NullCalls ==
    /\ fundamental_metrics \in
          {update(update(update(v, g), p), h) :
              v \in {EmptyDict, [pe_ttm |-> None, forward_pe |-> None, peg_ratio |-> None],
                     [valuation |-> EmptyDict], [valuation |-> [pe |-> None]]},
              g \in {EmptyDict, [growth |-> EmptyDict],
                     [growth |-> [revenue_cagr_3y |-> None, eps_cagr_3y |-> None,
                                  revenue_yoy |-> None]]},
              p \in {EmptyDict, [profitability |-> [roe |-> None, operating_margin |-> None]]},
              h \in {EmptyDict, [financial_health |-> [debt_equity |-> None]]}}
    /\ technical_indicators \in
          {EmptyDict,
           [rsi14 |-> None, trend_label |-> NoneLabel, max_drawdown_1y |-> None]}
    /\ sector_benchmarks \in {EmptyDict, [sector_pe_median |-> None]}
    /\ sentiment_adjustment \in AdjSamples

\* the benchmarks are the record get_sector_benchmarks returns, as in
\* compute_investment_scores, and the P/E is swept
PipelineCalls ==
    /\ fundamental_metrics \in
          {[pe_ttm |-> a, forward_pe |-> b, peg_ratio |-> c] :
              a \in PESamples, b \in ForwardPESamples, c \in {None, 90, 220}}
    /\ technical_indicators = EmptyDict
    /\ sector_benchmarks \in
          {get_sector_benchmarks("AAPL", s, "2026-01-01").value :
              s \in SectorNames \cup {"UnknownSector"}}
    /\ sentiment_adjustment = 0

Init ==
    /\ pc = "call"
    /\ locals = EmptyDict
    /\ scores = EmptyDict
    /\ (ProfileCalls \/ SweepCalls \/ StrongBandCalls \/ NullCalls \/ PipelineCalls)
    /\ FundamentalsIdle
    /\ TechnicalsIdle
    /\ AnalystIdle
    /\ ValuationIdle
    /\ MemoryIdle
    /\ TaskIdle
    /\ ConcurrentIdle

\* the call runs to its return statement
ComputeFactorScores ==
    /\ pc = "call"
    /\ locals' = factor_locals(fundamental_metrics, technical_indicators,
                                sector_benchmarks, sentiment_adjustment)
    /\ scores' = compute_factor_scores(fundamental_metrics, technical_indicators,
                                       sector_benchmarks, sentiment_adjustment)
    /\ pc' = "done"
    /\ UNCHANGED <<fundamental_metrics, technical_indicators, sector_benchmarks,
                   sentiment_adjustment, fundamentals_vars, technicals_vars,
                   analyst_vars, valuation_vars, memory_vars, concurrent_vars, task_vars>>

Next == ComputeFactorScores

Spec == Init /\ [][Next]_vars

(***************************************************************************)
(* The calculators' calls: compute_fundamental_metrics on statements the   *)
(* caller supplies, the same behind get_fundamentals (as the               *)
(* compute_fundamental_metrics tool chains them), and                      *)
(* compute_technical_indicators on a price frame.                          *)
(***************************************************************************)
\* income-statement lists hold up to MaxIncomePeriods periods
MaxIncomePeriods == 4

\* balance-sheet lists hold up to MaxBalancePeriods periods
MaxBalancePeriods == 1

SeqsUpTo(S, n) == UNION {[1 .. k -> S] : k \in 0 .. n}

\* the statement periods of the repository's test, and null, empty, zero
\* and revenue-less ones (EPS in tenths)
IncomePeriodSamples ==
    {[revenue |-> 100, gross_profit |-> 60, operating_income |-> 30, net_income |-> 25,
      eps |-> 50, interest_expense |-> 2, ebit |-> 32],
     [revenue |-> 90, gross_profit |-> 55, operating_income |-> 28, net_income |-> 22,
      eps |-> 45],
     [revenue |-> 70, eps |-> 35],
     [revenue |-> None, gross_profit |-> None, operating_income |-> None,
      net_income |-> None, eps |-> None, interest_expense |-> None, ebit |-> None],
     EmptyDict,
     [revenue |-> 0, gross_profit |-> 0, operating_income |-> 0, net_income |-> 0,
      eps |-> 0, interest_expense |-> 0, ebit |-> 0],
     [eps |-> 0 - 20, net_income |-> 0 - 10]}

BalancePeriodSamples ==
    {[total_debt |-> 20, total_equity |-> 100, total_assets |-> 150,
      cash_and_equivalents |-> 30, current_assets |-> 80, current_liabilities |-> 40],
     [total_debt |-> None, total_equity |-> None, total_assets |-> None,
      cash_and_equivalents |-> None, current_assets |-> None,
      current_liabilities |-> None],
     EmptyDict,
     [total_debt |-> 0, total_equity |-> 0, total_assets |-> 0,
      cash_and_equivalents |-> 0, current_assets |-> 0, current_liabilities |-> 0],
     [total_debt |-> 150, total_equity |-> 100, total_assets |-> 400]}

SuppliedFundamentals ==
    {[income_statement |-> i, balance_sheet |-> b, cash_flow |-> <<>>] :
        i \in SeqsUpTo(IncomePeriodSamples, MaxIncomePeriods),
        b \in SeqsUpTo(BalancePeriodSamples, MaxBalancePeriods)}
      \cup {EmptyDict, [income_statement |-> <<EmptyDict, EmptyDict>>]}

\* the growth inputs hold up to MaxGrowthPeriods income periods
MaxGrowthPeriods == 5

\* period i (1 = most recent) reports its own revenue and EPS, so that the
\* period a CAGR starts from can be told from its value
RevenueAt(i) == 220 - 20 * i

EpsAt(i) == 60 - 5 * i

\* income lists whose periods each report or omit revenue and EPS, over one
\* complete balance-sheet period
GrowthFundamentals ==
    {[income_statement |-> [i \in 1 .. n |->
                              [revenue |-> IF i \in r THEN None ELSE RevenueAt(i),
                               eps     |-> IF i \in e THEN None ELSE EpsAt(i)]],
      balance_sheet    |-> <<[total_debt |-> 20, total_equity |-> 100,
                              total_assets |-> 150]>>,
      cash_flow        |-> <<>>] :
        n \in 0 .. MaxGrowthPeriods,
        r \in SUBSET (3 .. MaxGrowthPeriods),
        e \in SUBSET (3 .. MaxGrowthPeriods)}

IncomeIndex ==
    {"Total Revenue", "Gross Profit", "Operating Income", "Net Income", "Diluted EPS",
     "Interest Expense", "EBIT"}

\* a frame over `index` whose column c holds base[r] - c for the line item r,
\* and NaN where `holes` names the cell <<c, r>>
Frame(index, base, ncols, holes) ==
    [is_none |-> FALSE,
     index   |-> index,
     columns |-> [c \in 1 .. ncols |->
                    [r \in index |-> IF <<c, r>> \in holes THEN NaN ELSE base[r] - c]]]

IncomeBase ==
    [r \in IncomeIndex \cup {"Revenue", "Basic EPS"} |->
        CASE r = "Total Revenue"    -> 100
          [] r = "Revenue"          -> 99
          [] r = "Gross Profit"     -> 60
          [] r = "Operating Income" -> 30
          [] r = "Net Income"       -> 25
          [] r = "Diluted EPS"      -> 50
          [] r = "Basic EPS"        -> 51
          [] r = "Interest Expense" -> 5
          [] r = "EBIT"             -> 32]

IncomeFrameSamples ==
    {NoneFrame,
     Frame({}, IncomeBase, 2, {}),
     Frame(IncomeIndex, IncomeBase, 0, {}),
     Frame(IncomeIndex, IncomeBase, 1, {}),
     Frame(IncomeIndex, IncomeBase, 4, {}),
     Frame(IncomeIndex, IncomeBase, 4,
           {<<1, "Gross Profit">>, <<1, "Interest Expense">>, <<2, "Net Income">>}),
     Frame(IncomeIndex \ {"Gross Profit", "EBIT"}, IncomeBase, 2, {}),
     Frame(IncomeIndex \cup {"Revenue", "Basic EPS"}, IncomeBase, 2,
           {<<1, "Total Revenue">>, <<2, "Diluted EPS">>}),
     Frame(IncomeIndex, IncomeBase, 2, {1, 2} \X IncomeIndex)}

BalanceIndex ==
    {"Total Assets", "Stockholders Equity", "Total Debt", "Cash And Cash Equivalents",
     "Total Current Assets", "Total Current Liabilities"}

BalanceBase ==
    [r \in BalanceIndex |->
        CASE r = "Total Assets"              -> 150
          [] r = "Stockholders Equity"       -> 100
          [] r = "Total Debt"                -> 20
          [] r = "Cash And Cash Equivalents" -> 30
          [] r = "Total Current Assets"      -> 80
          [] r = "Total Current Liabilities" -> 40]

BalanceFrameSamples ==
    {NoneFrame,
     Frame(BalanceIndex, BalanceBase, 2, {}),
     Frame(BalanceIndex, BalanceBase, 2, {<<1, "Total Debt">>, <<1, "Stockholders Equity">>}),
     Frame(BalanceIndex \ {"Total Debt"}, BalanceBase, 1, {})}

CashFlowFrameSamples ==
    {NoneFrame,
     Frame({"Free Cash Flow", "Capital Expenditures"},
           [r \in {"Free Cash Flow", "Capital Expenditures"} |-> 10], 2,
           {<<2, "Free Cash Flow">>})}

ProviderSamples ==
    {[fails |-> f, income_stmt |-> i, balance_sheet |-> b, cash_flow |-> c] :
        f \in BOOLEAN, i \in IncomeFrameSamples, b \in BalanceFrameSamples,
        c \in CashFlowFrameSamples}

\* the longest price series has LongRows rows, more than the 252 of a year
LongRows == 260

\* high and low lie up to MaxSpread above and below the close
MaxSpread == 2

PriceShapes ==
    {"flat", "rising", "falling", "peak", "trough", "zigzag", "sawtooth",
     "late_flat", "late_rally", "late_drop"}

\* the close of row i of an n-row series of the given shape, in whole units
ShapeAt(shape, i, n) ==
    CASE shape = "flat"       -> 100
      [] shape = "rising"     -> 100 + i \div 2
      [] shape = "falling"    -> 250 - i \div 2
      [] shape = "peak"       -> 100 + Min(i, n - i)
      [] shape = "trough"     -> 250 - Min(i, n - i)
      [] shape = "zigzag"     -> 100 + 3 * (i % 2)
      [] shape = "sawtooth"   -> 100 + 2 * (i % 7) + i \div 10
      [] shape = "late_flat"  -> 100 + Min(i, n - 20) \div 2
      [] shape = "late_rally" -> IF i <= n - 15 THEN 250 - i \div 2
                                 ELSE 250 - (n - 15) \div 2 + 2 * (i - (n - 15))
      [] shape = "late_drop"  -> IF i <= n - 15 THEN 100 + i \div 2
                                 ELSE 100 + (n - 15) \div 2 - 2 * (i - (n - 15))

PriceFrame(columns, shape, n, spread) ==
    [columns |-> columns,
     rows    |-> n,
     close   |-> [i \in 1 .. n |-> ShapeAt(shape, i, n)],
     high    |-> [i \in 1 .. n |-> ShapeAt(shape, i, n) + spread],
     low     |-> [i \in 1 .. n |-> ShapeAt(shape, i, n) - spread]]

RowSamples == {0, 1, MinRows - 1, MinRows, MinRows + 1, 252, LongRows}

PriceFrameSamples ==
    {PriceFrame(c, shape, n, spread) :
        c \in {required_cols, required_cols \cup {"adj_close"}},
        shape \in PriceShapes, n \in RowSamples, spread \in 0 .. MaxSpread}
      \cup {PriceFrame(c, "flat", n, 1) :
               c \in {{}} \cup {required_cols \ {x} : x \in required_cols},
               n \in RowSamples}

\* compute_fundamental_metrics called on statements the caller holds
SuppliedCall ==
    /\ ticker = ""
    /\ provider = NoProvider
    /\ fundamentals \in SuppliedFundamentals \cup GrowthFundamentals
    /\ metrics = NoOutcome
    /\ pcF = "compute"
    /\ TechnicalsIdle

\* get_fundamentals(ticker), then compute_fundamental_metrics on its result
FetchedCall ==
    /\ ticker \in {"", "AAPL"}
    /\ provider \in ProviderSamples
    /\ fundamentals = EmptyDict
    /\ metrics = NoOutcome
    /\ pcF = "fetch"
    /\ TechnicalsIdle

IndicatorsCall ==
    /\ price_df \in PriceFrameSamples
    /\ indicators = NoOutcome
    /\ pcT = "call"
    /\ FundamentalsIdle

InitCalc ==
    /\ ScoringIdle
    /\ AnalystIdle
    /\ ValuationIdle
    /\ MemoryIdle
    /\ TaskIdle
    /\ ConcurrentIdle
    /\ (SuppliedCall \/ FetchedCall \/ IndicatorsCall)

\* get_fundamentals returns the normalized statements, or raises and ends
\* the chain
GetFundamentals ==
    /\ pcF = "fetch"
    /\ LET got == get_fundamentals(ticker, provider)
       IN  IF got.kind = "ok"
           THEN /\ fundamentals' = got.value
                /\ metrics' = metrics
                /\ pcF' = "compute"
           ELSE /\ fundamentals' = fundamentals
                /\ metrics' = got
                /\ pcF' = "done"
    /\ UNCHANGED <<ticker, provider, scoring_vars, technicals_vars, analyst_vars,
                   valuation_vars, memory_vars, concurrent_vars, task_vars>>

ComputeFundamentalMetrics ==
    /\ pcF = "compute"
    /\ metrics' = compute_fundamental_metrics(fundamentals)
    /\ pcF' = "done"
    /\ UNCHANGED <<ticker, provider, fundamentals, scoring_vars, technicals_vars,
                   analyst_vars, valuation_vars, memory_vars, concurrent_vars, task_vars>>

ComputeTechnicalIndicators ==
    /\ pcT = "call"
    /\ indicators' = compute_technical_indicators(price_df)
    /\ pcT' = "done"
    /\ UNCHANGED <<price_df, scoring_vars, fundamentals_vars, analyst_vars,
                   valuation_vars, memory_vars, concurrent_vars, task_vars>>

NextCalc == GetFundamentals \/ ComputeFundamentalMetrics \/ ComputeTechnicalIndicators

SpecCalc == InitCalc /\ [][NextCalc]_vars

(***************************************************************************)
(* SpecAnalyst: the analyst's calls.                                       *)
(***************************************************************************)
SectorSamples ==
    SectorNames \cup {"UnknownSector", "technology", "Financials", "Tech", "", NoneLabel}

TickerSamples == {"AAPL", "msft", ""}

TodaySamples == {"2025-12-25", "2026-01-01", "2026-02-28"}

\* get_sector_benchmarks called on its own
SectorCall ==
    /\ ticker \in TickerSamples
    /\ sector \in SectorSamples
    /\ today \in TodaySamples
    /\ benchmarks = NoOutcome
    /\ pcA = "sector"
    /\ history = NoHistory
    /\ tool_result = EmptyDict
    /\ analyst_output = NoOutcome
    /\ report_output = NoOutcome
    /\ provider = NoProvider
    /\ fundamentals = EmptyDict
    /\ metrics = NoOutcome
    /\ pcF = "idle"
    /\ TechnicalsIdle
    /\ ScoringIdle
    /\ ValuationIdle
    /\ MemoryIdle
    /\ TaskIdle
    /\ ConcurrentIdle

\* what Yahoo can answer to the price-history request of the tool
HistorySamples ==
    {[fails |-> TRUE, df |-> NoPriceFrame]}
      \cup {[fails |-> FALSE, df |-> PriceFrame(c, shape, n, 1)] :
               c \in {required_cols \cup {"adj close", "dividends", "stock splits"}},
               shape \in {"flat", "rising", "late_drop"},
               n \in {0, MinHistoryRows - 1, MinHistoryRows, MinRows - 1, MinRows, 252}}
      \cup {[fails |-> FALSE, df |-> PriceFrame(c, "rising", 252, 1)] :
               c \in {{}, {"date"}, required_cols \ {"date"},
                      (required_cols \ {"date"}) \cup {"datetime"},
                      required_cols \ {"volume"}}}

\* statements with four reported periods and a negative first revenue, and
\* the sampled statements
ToolProviderSamples ==
    {p \in ProviderSamples : p.cash_flow = NoneFrame}
      \cup {[fails |-> FALSE,
              income_stmt |-> Frame(IncomeIndex, [IncomeBase EXCEPT !["Total Revenue"] = b],
                                    4, {}),
              balance_sheet |-> Frame(BalanceIndex, BalanceBase, 2, {}),
              cash_flow |-> NoneFrame] : b \in {3, 100, 180}}

\* the analyst agent calls the tool compute_investment_scores
ToolCall ==
    /\ ticker \in {"AAPL", ""}
    /\ sector \in {"Technology", "UnknownSector", ""}
    /\ sentiment_adjustment \in {0, 7 * Scale}
    /\ today = "2026-01-01"
    /\ history \in HistorySamples
    /\ provider \in ToolProviderSamples
    /\ benchmarks = NoOutcome
    /\ pcA = "tool"
    /\ tool_result = EmptyDict
    /\ analyst_output = NoOutcome
    /\ report_output = NoOutcome
    /\ fundamental_metrics = EmptyDict
    /\ technical_indicators = EmptyDict
    /\ sector_benchmarks = EmptyDict
    /\ locals = EmptyDict
    /\ scores = EmptyDict
    /\ pc = "idle"
    /\ fundamentals = EmptyDict
    /\ metrics = NoOutcome
    /\ pcF = "idle"
    /\ TechnicalsIdle
    /\ ValuationIdle
    /\ MemoryIdle
    /\ TaskIdle
    /\ ConcurrentIdle

InitAnalyst == SectorCall \/ ToolCall

GetSectorBenchmarks ==
    /\ pcA = "sector"
    /\ benchmarks' = get_sector_benchmarks(ticker, sector, today)
    /\ pcA' = "done"
    /\ UNCHANGED <<sector, today, history, tool_result, analyst_output, report_output,
                   scoring_vars, fundamentals_vars, technicals_vars, valuation_vars,
                   memory_vars, concurrent_vars, task_vars>>

\* one run of the tool, from its entry to the JSON it returns
ComputeInvestmentScores ==
    /\ pcA = "tool"
    /\ tool_result' = compute_investment_scores(ticker, sector, sentiment_adjustment,
                                                history, provider, today)
    /\ provider_instance' = provider_after_tool(provider_instance, ticker, now)
    /\ pcA' = "analyst"
    /\ UNCHANGED <<sector, today, benchmarks, history, analyst_output, report_output,
                   scoring_vars, fundamentals_vars, technicals_vars,
                   yf_info, now, valuation, first_valuation, calls, pcV, memory_vars,
                   concurrent_vars, task_vars>>

\* the answers of an analyst agent that reports what the tool returned: the
\* tool's scores when it returned some, or no scores (the key left out, or null)
AnalystAnswers ==
    LET base == [ticker |-> ticker, sector |-> sector]
    IN  {base, update(base, [scores |-> NullDict])}
          \cup (IF tool_result.status = "success"
                THEN {update(base, [scores |-> tool_result.scores])}
                ELSE {})

\* the task's output_pydantic=AnalystOutput: the analyst's answer is validated
ValidateAnalystOutput ==
    /\ pcA = "analyst"
    /\ \E data \in AnalystAnswers :
          /\ analyst_output' = AnalystOutput(data)
          /\ pcA' = IF analyst_output'.kind = "ok" THEN "reporter" ELSE "done"
    /\ UNCHANGED <<sector, today, benchmarks, history, tool_result, report_output,
                   scoring_vars, fundamentals_vars, technicals_vars, valuation_vars,
                   memory_vars, concurrent_vars, task_vars>>

\* the answers of a reporter agent that reports what the analyst's output
\* holds, or leaves score and rating out
ReporterAnswers ==
    LET base == [ticker |-> analyst_output.value.ticker,
                 sector |-> analyst_output.value.sector]
    IN  {base,
         update(base, [final_score   |-> analyst_output.value.scores.final_score,
                       rating_5_tier |-> analyst_output.value.scores.rating])}

\* the task's output_pydantic=ReportOutput: the reporter's answer is validated
ValidateReportOutput ==
    /\ pcA = "reporter"
    /\ \E data \in ReporterAnswers : report_output' = ReportOutput(data)
    /\ pcA' = "done"
    /\ UNCHANGED <<sector, today, benchmarks, history, tool_result, analyst_output,
                   scoring_vars, fundamentals_vars, technicals_vars, valuation_vars,
                   memory_vars, concurrent_vars, task_vars>>

NextAnalyst ==
    \/ GetSectorBenchmarks
    \/ ComputeInvestmentScores
    \/ ValidateAnalystOutput
    \/ ValidateReportOutput

SpecAnalyst == InitAnalyst /\ [][NextAnalyst]_vars

(***************************************************************************)
(* SpecValuation: the four calculators in one process.  The valuation      *)
(* calculator is called up to MaxCalls times on the same ticker while the  *)
(* clock advances and the market moves; the other three are called once    *)
(* on arguments the caller holds.                                          *)
(***************************************************************************)
\* calls of get_valuation_metrics in one run
MaxCalls == 2

\* the clock runs from 0 to MaxClock minutes
MaxClock == 32

\* the clock advances by steps on either side of half the time to live
TickMinutes == {cache_ttl \div 2, cache_ttl \div 2 + 1}

\* an info dict with the six scored inputs as given; market cap 3000
InfoOf(pe, fpe, peg, pb, ev, fcf) ==
    [currentPrice |-> 15000, marketCap |-> 3000, enterpriseValue |-> 3100,
     sharesOutstanding |-> 20, trailingPE |-> pe, forwardPE |-> fpe,
     pegRatio |-> peg, priceToBook |-> pb, enterpriseToEbitda |-> ev,
     freeCashflow |-> fcf, priceToSalesTrailing12Months |-> 750,
     enterpriseToRevenue |-> 800, dividendYield |-> 50, payoutRatio |-> 1500]

PeSamples == {None, 0, 0 - 500, 999, 1000, 1499, 1500, 1999, 2000, 2499, 2500, 3499, 3500}

ForwardPeSamples == {None, 0, 0 - 500, 1199, 1200, 1799, 1800, 2499, 2500}

PegSamples == {None, 0, 0 - 20, 49, 50, 99, 100, 149, 150, 199, 200}

PriceToBookSamples == {None, 0, 0 - 100, 99, 100, 199, 200, 399, 400}

EvToEbitdaSamples == {None, 0, 0 - 300, 799, 800, 1199, 1200, 1599, 1600, 1999, 2000}

\* free cash flows giving yields of -1, 0.5, 1, 2, 3, 4, 5, 6, 8 and 9 percent
FcfSamples == {None, 0, 0 - 30, 15, 30, 60, 90, 120, 150, 180, 240, 270}

\* one input swept over its band edges while the others are missing
InfoSweeps ==
    {InfoOf(x, None, None, None, None, None) : x \in PeSamples}
      \cup {InfoOf(None, x, None, None, None, None) : x \in ForwardPeSamples}
      \cup {InfoOf(None, None, x, None, None, None) : x \in PegSamples}
      \cup {InfoOf(None, None, None, x, None, None) : x \in PriceToBookSamples}
      \cup {InfoOf(None, None, None, None, x, None) : x \in EvToEbitdaSamples}
      \cup {InfoOf(None, None, None, None, None, x) : x \in FcfSamples}

\* every combination of present and missing inputs
InfoProfiles ==
    {InfoOf(pe, fpe, peg, pb, ev, fcf) :
        pe \in {None, 900, 2200, 4000}, fpe \in {None, 1100, 3000},
        peg \in {None, 120}, pb \in {None, 300},
        ev \in {None, 700, 2500}, fcf \in {None, 0 - 30, 270}}

\* dicts with keys missing, and with a market cap or share count that is
\* null or zero
InfoShapes ==
    {EmptyDict,
     [regularMarketPrice |-> 15000],
     [currentPrice |-> 0, regularMarketPrice |-> 15000, trailingPE |-> 1800],
     [InfoOf(1800, None, None, None, None, 90) EXCEPT !.marketCap = None],
     [InfoOf(1800, None, None, None, None, 90) EXCEPT !.marketCap = 0],
     [InfoOf(None, None, None, None, None, 90) EXCEPT !.sharesOutstanding = 0],
     [InfoOf(None, None, None, None, None, 90) EXCEPT !.enterpriseValue = None]}

\* what the market can move to between two calls
MovedInfoSamples == {InfoFailure, InfoOf(2200, 1100, None, None, None, 270)}

ValuationCall ==
    /\ \/ /\ ticker \in {"AAPL", "aapl", ""}
          /\ yf_info \in InfoSweeps \cup InfoShapes \cup {InfoFailure}
       \/ /\ ticker = "AAPL"
          /\ yf_info \in InfoProfiles
    /\ provider_instance = NoInstance
    /\ now = 0
    /\ valuation = EmptyDict
    /\ first_valuation = EmptyDict
    /\ calls = 0
    /\ pcV = "ready"
    /\ provider = NoProvider
    /\ fundamentals = EmptyDict
    /\ metrics = NoOutcome
    /\ pcF = "idle"
    /\ TechnicalsIdle
    /\ ScoringIdle

\* compute_factor_scores, compute_fundamental_metrics or
\* compute_technical_indicators called on arguments the caller holds
OtherCalculatorCall ==
    /\ ValuationIdle
    /\ \/ /\ pc = "call"
          /\ locals = EmptyDict
          /\ scores = EmptyDict
          /\ NullCalls
          /\ FundamentalsIdle
          /\ TechnicalsIdle
       \/ /\ ticker = ""
          /\ provider = NoProvider
          /\ fundamentals \in GrowthFundamentals
          /\ metrics = NoOutcome
          /\ pcF = "compute"
          /\ TechnicalsIdle
          /\ ScoringIdle
       \/ /\ price_df \in {PriceFrame(required_cols, shape, MinRows, 1) : shape \in PriceShapes}
          /\ indicators = NoOutcome
          /\ pcT = "call"
          /\ FundamentalsIdle
          /\ ScoringIdle

InitValuation ==
    /\ AnalystIdle
    /\ MemoryIdle
    /\ TaskIdle
    /\ ConcurrentIdle
    /\ (ValuationCall \/ OtherCalculatorCall)

\* one call of get_valuation_metrics(ticker), from entry to return
GetValuationMetrics ==
    /\ pcV = "ready"
    /\ calls < MaxCalls
    /\ LET got == get_valuation_metrics(provider_instance, ticker, now, yf_info)
       IN  /\ valuation' = got.value
           /\ first_valuation' = IF calls = 0 THEN got.value ELSE first_valuation
           /\ provider_instance' = got.instance
    /\ calls' = calls + 1
    /\ UNCHANGED <<yf_info, now, pcV, scoring_vars, fundamentals_vars, technicals_vars,
                   analyst_vars, memory_vars, concurrent_vars, task_vars>>

\* time passes between two calls
Tick ==
    /\ pcV = "ready"
    /\ \E d \in TickMinutes :
          /\ now + d <= MaxClock
          /\ now' = now + d
    /\ UNCHANGED <<provider_instance, yf_info, valuation, first_valuation, calls, pcV,
                   scoring_vars, fundamentals_vars, technicals_vars, analyst_vars,
                   memory_vars, concurrent_vars, task_vars>>

\* Yahoo's answer changes between two calls
MarketMoves ==
    /\ pcV = "ready"
    /\ yf_info' \in MovedInfoSamples \ {yf_info}
    /\ UNCHANGED <<provider_instance, now, valuation, first_valuation, calls, pcV,
                   scoring_vars, fundamentals_vars, technicals_vars, analyst_vars,
                   memory_vars, concurrent_vars, task_vars>>

NextValuation ==
    \/ GetValuationMetrics
    \/ Tick
    \/ MarketMoves
    \/ ComputeFactorScores
    \/ ComputeFundamentalMetrics
    \/ ComputeTechnicalIndicators

SpecValuation == InitValuation /\ [][NextValuation]_vars

(***************************************************************************)
(* The memory and the service that caches reports in it: SpecMemory.       *)
(* Artifacts are saved and retrieved directly, as the tests do, and        *)
(* through run_full_research; the clock moves with every call and may      *)
(* move between two calls.  A call reads the clock once (the service       *)
(* twice: at the lookup, and one tick later at the save).                  *)
(***************************************************************************)
MaxTick == 4

MemoryTickers == {"AAPL", "MSFT"}

\* the artifacts saved directly: a ticker and an artifact type
ArtifactKeys == {<<"AAPL", "report">>, <<"AAPL", "analyst">>, <<"MSFT", "report">>}

TtlSamples == {0, 1}

\* the artifact of tests/test_chroma_memory.py, here holding a date as
\* well, and a report whose score is null
ContentSamples ==
    {[rating |-> "Buy", final_score |-> "75", as_of_date |-> DateObject],
     [rating |-> "Hold", final_score |-> PyNone]}

MetadataSample == [sector |-> "Technology"]

\* what detect_sector answers: the sector found, or the default and None
SectorsOf(tk) ==
    IF tk = "AAPL" THEN [mapped |-> "Healthcare", raw |-> "Healthcare"]
    ELSE [mapped |-> "Technology", raw |-> PyNone]

\* how crew.run ends: a complete report, a report whose score is null, an
\* output whose report could not be parsed, no answer in time, an exception
CrewRuns(tk) ==
    {[kind |-> "ok",
      result |-> [ticker |-> tk, final_score |-> "72.5", rating_5_tier |-> "BUY"]],
     [kind |-> "ok",
      result |-> [ticker |-> tk, final_score |-> PyNone, rating_5_tier |-> "HOLD"]],
     [kind |-> "ok",
      result |-> [ticker |-> tk, report_parse_error |-> "JSONDecodeError"]],
     [kind |-> "timeout"],
     [kind |-> "raise"]}

\* the memory answers both calls, or one of them raises
EnvSamples ==
    {NoEnv,
     [lookup_fails |-> TRUE, save_fails |-> FALSE],
     [lookup_fails |-> FALSE, save_fails |-> TRUE]}

InitMemory ==
    /\ ScoringIdle
    /\ FundamentalsIdle
    /\ TechnicalsIdle
    /\ AnalystIdle
    /\ ValuationIdle
    /\ MemoryIdle
    /\ TaskIdle
    /\ ConcurrentIdle

\* save_to_chroma(ticker, artifact_type, content, metadata, ttl_days)
SaveToChroma ==
    /\ utc_clock < MaxTick
    /\ \E key \in ArtifactKeys, content \in ContentSamples, ttl_days \in TtlSamples :
          /\ collection' = save_to_chroma(collection, key[1], key[2], content,
                                          MetadataSample, ttl_days, utc_clock)
          /\ op' = [NoOp EXCEPT !.name = "save", !.ticker = key[1],
                                !.artifact_type = key[2], !.content = content,
                                !.ttl_days = ttl_days, !.at = utc_clock]
    /\ prev_op' = op
    /\ utc_clock' = utc_clock + 1
    /\ UNCHANGED <<retrieved, served>>
    /\ UNCHANGED <<scoring_vars, fundamentals_vars, technicals_vars, analyst_vars,
                   valuation_vars, concurrent_vars, task_vars>>

\* retrieve_from_chroma(ticker, artifact_type, allow_expired)
RetrieveFromChroma ==
    /\ utc_clock < MaxTick
    /\ \E key \in ArtifactKeys, allow_expired \in BOOLEAN :
          /\ retrieved' = retrieve_from_chroma(collection, key[1], key[2],
                                               allow_expired, utc_clock)
          /\ op' = [NoOp EXCEPT !.name = "retrieve", !.ticker = key[1],
                                !.artifact_type = key[2],
                                !.allow_expired = allow_expired, !.at = utc_clock]
    /\ prev_op' = op
    /\ utc_clock' = utc_clock + 1
    /\ UNCHANGED <<collection, served>>
    /\ UNCHANGED <<scoring_vars, fundamentals_vars, technicals_vars, analyst_vars,
                   valuation_vars, concurrent_vars, task_vars>>

\* run_full_research(ticker, force_refresh), from entry to return
RunFullResearch ==
    /\ utc_clock + 1 < MaxTick
    /\ \E tk \in MemoryTickers, force_refresh \in BOOLEAN, env \in EnvSamples :
          \E crew_run \in CrewRuns(tk) :
              LET ran == run_full_research(collection, tk, force_refresh, SectorsOf(tk),
                                           crew_run, env, utc_clock)
              IN  /\ served' = ran.returned
                  /\ collection' = ran.collection
                  /\ op' = [NoOp EXCEPT !.name = "run", !.ticker = tk,
                                        !.artifact_type = "report",
                                        !.force_refresh = force_refresh,
                                        !.at = utc_clock]
    /\ prev_op' = op
    /\ utc_clock' = utc_clock + 2
    /\ UNCHANGED retrieved
    /\ UNCHANGED <<scoring_vars, fundamentals_vars, technicals_vars, analyst_vars,
                   valuation_vars, concurrent_vars, task_vars>>

\* time passes between two calls
ClockTicks ==
    /\ utc_clock < MaxTick
    /\ utc_clock' = utc_clock + 1
    /\ UNCHANGED <<collection, op, prev_op, retrieved, served>>
    /\ UNCHANGED <<scoring_vars, fundamentals_vars, technicals_vars, analyst_vars,
                   valuation_vars, concurrent_vars, task_vars>>

NextMemory ==
    \/ SaveToChroma
    \/ RetrieveFromChroma
    \/ RunFullResearch
    \/ ClockTicks

SpecMemory == InitMemory /\ [][NextMemory]_vars

(***************************************************************************)
(* The provider under concurrent callers: SpecConcurrent.  A call of       *)
(* get_info or get_history is five steps: the lookup under the lock, the   *)
(* check of the field, the yfinance request, the assignment, the return.   *)
(* Steps of different threads interleave freely outside the lock;          *)
(* clear_cache runs under the lock.  Time passes and Yahoo's data changes  *)
(* between any two steps.                                                  *)
(***************************************************************************)
MaxLookups == 2

MaxVersion == 2

\* the tickers callers pass
CallerTickers == {"AAPL", "aapl", "MSFT"}

\* the arguments of clear_cache: none, or a ticker
ClearArguments == {NoneLabel, "aapl"}

\* the clock advances by the time to live, or by a minute more
LongTickMinutes == {cache_ttl, cache_ttl + 1}

NoFetches == [kind \in DataKinds |-> 0]

NothingObserved == [kind \in DataKinds |-> {}]

InitConcurrent ==
    /\ ScoringIdle
    /\ FundamentalsIdle
    /\ TechnicalsIdle
    /\ AnalystIdle
    /\ ValuationIdle
    /\ MemoryIdle
    /\ TaskIdle
    /\ ConcurrentIdle

OthersUnchanged ==
    UNCHANGED <<scoring_vars, fundamentals_vars, technicals_vars, analyst_vars,
                valuation_vars, memory_vars, task_vars>>

\* get_info(ticker) or get_history(ticker, period, interval) is entered and
\* _get_or_create_cache returns: lines 85, 103
Lookup(t, tk, kind) ==
    /\ callers[t].pc = "idle"
    /\ lookups < MaxLookups
    /\ lookups' = lookups + 1
    /\ LET got == locked_get_or_create_cache(provider_cache, cache_entries, tk, wall_clock)
       IN  /\ provider_cache' = got.cache
           /\ cache_entries' = got.entries
           /\ callers' = [callers EXCEPT ![t] = [pc |-> "check", ticker |-> tk,
                                                  kind |-> kind, cached |-> got.cached,
                                                  value |-> Unfetched]]
           /\ fetch_count' = IF Len(got.entries) > Len(cache_entries)
                             THEN Append(fetch_count, NoFetches) ELSE fetch_count
           /\ observed' = IF Len(got.entries) > Len(cache_entries)
                          THEN Append(observed, NothingObserved) ELSE observed
    /\ UNCHANGED <<wall_clock, yahoo>>
    /\ OthersUnchanged

\* `if cached._info is None`, line 87; `if cache_key not in cached._history`,
\* line 106
Check(t) ==
    /\ callers[t].pc = "check"
    /\ callers' = [callers EXCEPT ![t].pc =
                      IF cache_entries[callers[t].cached].data[callers[t].kind] = Unfetched
                      THEN "fetch" ELSE "return"]
    /\ UNCHANGED <<provider_cache, cache_entries, wall_clock, yahoo, fetch_count, observed,
                   lookups>>
    /\ OthersUnchanged

\* cached._yf_ticker.info, line 88; cached._yf_ticker.history(...), lines
\* 107-109: the request to Yahoo is answered
Fetch(t) ==
    /\ callers[t].pc = "fetch"
    /\ callers' = [callers EXCEPT ![t].pc = "store", ![t].value = yahoo]
    /\ fetch_count' = [fetch_count EXCEPT ![callers[t].cached][callers[t].kind] = @ + 1]
    /\ UNCHANGED <<provider_cache, cache_entries, wall_clock, yahoo, observed, lookups>>
    /\ OthersUnchanged

\* the assignment to cached._info, line 88, or cached._history[cache_key],
\* line 110
Store(t) ==
    /\ callers[t].pc = "store"
    /\ cache_entries' = [cache_entries EXCEPT ![callers[t].cached].data[callers[t].kind] =
                            callers[t].value]
    /\ callers' = [callers EXCEPT ![t].pc = "return", ![t].value = Unfetched]
    /\ UNCHANGED <<provider_cache, wall_clock, yahoo, fetch_count, observed, lookups>>
    /\ OthersUnchanged

\* `return cached._info`, line 90; `return cached._history[cache_key]`,
\* line 112
Return(t) ==
    /\ callers[t].pc = "return"
    /\ LET result == cache_entries[callers[t].cached].data[callers[t].kind]
       IN  /\ callers' = [callers EXCEPT ![t] = NoCall]
           /\ observed' = [observed EXCEPT ![callers[t].cached][callers[t].kind] =
                              @ \cup {result}]
    /\ UNCHANGED <<provider_cache, cache_entries, wall_clock, yahoo, fetch_count, lookups>>
    /\ OthersUnchanged

\* clear_cache(ticker) or clear_cache()
ClearCache(arg) ==
    /\ provider_cache' = clear_cache(provider_cache, arg)
    /\ provider_cache' # provider_cache
    /\ UNCHANGED <<cache_entries, callers, wall_clock, yahoo, fetch_count, observed,
                   lookups>>
    /\ OthersUnchanged

TimePasses ==
    /\ \E d \in LongTickMinutes :
          /\ wall_clock + d <= MaxClock
          /\ wall_clock' = wall_clock + d
    /\ UNCHANGED <<provider_cache, cache_entries, callers, yahoo, fetch_count, observed,
                   lookups>>
    /\ OthersUnchanged

YahooChanges ==
    /\ yahoo < MaxVersion
    /\ yahoo' = yahoo + 1
    /\ UNCHANGED <<provider_cache, cache_entries, callers, wall_clock, fetch_count, observed,
                   lookups>>
    /\ OthersUnchanged

NextConcurrent ==
    \/ \E t \in Threads, tk \in CallerTickers, kind \in DataKinds : Lookup(t, tk, kind)
    \/ \E t \in Threads : Check(t)
    \/ \E t \in Threads : Fetch(t)
    \/ \E t \in Threads : Store(t)
    \/ \E t \in Threads : Return(t)
    \/ \E arg \in ClearArguments : ClearCache(arg)
    \/ TimePasses
    \/ YahooChanges

SpecConcurrent == InitConcurrent /\ [][NextConcurrent]_vars

(***************************************************************************)
(* The asynchronous research tasks: SpecTasks.  Requests arrive at any     *)
(* time; the background coroutine of a task runs up to its await, the      *)
(* research run ends in its executor thread, and the coroutine resumes.    *)
(* The event loop runs one coroutine step at a time and resumes every      *)
(* coroutine whose awaited run has ended.  Every handler reads the clock   *)
(* later than the one before it.                                           *)
(***************************************************************************)
MaxApiClock == 4

\* the values uuid.uuid4() returns
TaskIds == {"task-1", "task-2"}

RequestSamples ==
    {[ticker |-> "aapl", reset_memory |-> TRUE],
     [ticker |-> "MSFT", reset_memory |-> FALSE]}

\* how run_research_async ends: it returns the report and the execution
\* result (the duration in tenths of a second), or raises
RunOutcomes ==
    {[state |-> "returned", report |-> "# Research report", duration_seconds |-> 452],
     [state |-> "returned", report |-> "", duration_seconds |-> None],
     [state |-> "raised", error |-> "Crew execution failed"]}

InitTasks ==
    /\ ScoringIdle
    /\ FundamentalsIdle
    /\ TechnicalsIdle
    /\ AnalystIdle
    /\ ValuationIdle
    /\ MemoryIdle
    /\ ConcurrentIdle
    /\ TaskIdle

RestUnchanged ==
    UNCHANGED <<scoring_vars, fundamentals_vars, technicals_vars, analyst_vars,
                valuation_vars, memory_vars, concurrent_vars>>

\* POST /api/research/async, lines 433-474
CreateResearchAsync ==
    /\ api_clock < MaxApiClock
    /\ api_clock' = api_clock + 1
    /\ \E request \in RequestSamples, key_configured \in BOOLEAN :
          IF ~key_configured
          THEN /\ api_response' = [code |-> 500]
               /\ UNCHANGED <<task_store, requests, executions>>
          ELSE \E task_id \in TaskIds \ DOMAIN task_store :
                  /\ task_store' =
                         [id \in DOMAIN task_store \cup {task_id} |->
                             IF id = task_id
                             THEN ResearchTask(task_id, Upper(request.ticker), api_clock)
                             ELSE task_store[id]]
                  /\ requests' = [id \in DOMAIN requests \cup {task_id} |->
                                     IF id = task_id THEN request ELSE requests[id]]
                  /\ executions' = [id \in DOMAIN executions \cup {task_id} |->
                                       IF id = task_id THEN [state |-> "scheduled"]
                                       ELSE executions[id]]
                  /\ api_response' = [code |-> 200, task_id |-> task_id, status |-> PENDING]
    /\ RestUnchanged

\* execute_research_task from its entry to its await, lines 303-328
StartTask(task_id) ==
    /\ task_id \in DOMAIN executions
    /\ executions[task_id].state = "scheduled"
    /\ IF task_id \in DOMAIN task_store
       THEN /\ task_store' = [task_store EXCEPT ![task_id] =
                                 task_started(@, requests[task_id], api_clock)]
            /\ executions' = [executions EXCEPT ![task_id] = [state |-> "awaiting"]]
       ELSE /\ executions' = [executions EXCEPT ![task_id] = [state |-> "finished"]]
            /\ UNCHANGED task_store
    /\ api_clock' = api_clock + 1
    /\ UNCHANGED <<requests, api_response>>
    /\ RestUnchanged

\* run_research_sync ends in its executor thread, lines 232-272
RunEnds(task_id) ==
    /\ task_id \in DOMAIN executions
    /\ executions[task_id].state = "awaiting"
    /\ \E outcome \in RunOutcomes : executions' = [executions EXCEPT ![task_id] = outcome]
    /\ UNCHANGED <<task_store, requests, api_clock, api_response>>
    /\ RestUnchanged

\* execute_research_task from its await to its end, lines 329-350
ResumeTask(task_id) ==
    /\ task_id \in DOMAIN executions
    /\ executions[task_id].state \in {"returned", "raised"}
    /\ task_store' = [task_store EXCEPT ![task_id] =
                          task_after_run(@, executions[task_id], api_clock)]
    /\ executions' = [executions EXCEPT ![task_id] = [state |-> "finished"]]
    /\ api_clock' = api_clock + 1
    /\ UNCHANGED <<requests, api_response>>
    /\ RestUnchanged

\* GET /api/status/{task_id}, lines 477-492
GetTaskStatus(task_id) ==
    /\ api_response' = IF task_id \in DOMAIN task_store
                       THEN [code |-> 200, task |-> task_store[task_id]]
                       ELSE [code |-> 404]
    /\ api_response' # api_response
    /\ UNCHANGED <<task_store, requests, executions, api_clock>>
    /\ RestUnchanged

NextTasks ==
    \/ CreateResearchAsync
    \/ \E task_id \in TaskIds : StartTask(task_id)
    \/ \E task_id \in TaskIds : RunEnds(task_id)
    \/ \E task_id \in TaskIds : ResumeTask(task_id)
    \/ \E task_id \in TaskIds : GetTaskStatus(task_id)

\* the event loop resumes a coroutine whose awaited future is done
EventLoopIsFair == \A task_id \in TaskIds : WF_vars(ResumeTask(task_id))

SpecTasks == InitTasks /\ [][NextTasks]_vars

SpecTasksFair == SpecTasks /\ EventLoopIsFair

(***************************************************************************)
(* The claims about compute_factor_scores, checked under Spec.             *)
(* Reference definitions restate the specification's arithmetic on its     *)
(* own; the formulas compare them with what the call computed.             *)
(***************************************************************************)
Points(n) == n * Scale

InScoreRange(x) == 0 <= x /\ x <= Points(100)

\* clamp(x, lo, hi) as the specification writes it
ClampTo(x, lo, hi) == IF x < lo THEN lo ELSE IF x > hi THEN hi ELSE x

\* the five-tier ladder as the specification writes it
RatingLadder(x) ==
    IF x >= Points(80) THEN "STRONG BUY"
    ELSE IF x >= Points(65) THEN "BUY"
    ELSE IF x >= Points(45) THEN "HOLD"
    ELSE IF x >= Points(30) THEN "REDUCE"
    ELSE "SELL"

SubScoreNames ==
    {"valuation_score", "growth_score", "profitability_score",
     "financial_health_score", "technical_score"}

Done == pc = "done"

\* C1: final_score is in [0,100] whatever the sentiment adjustment, the
\* adjustment applied is the given one clamped to [-5,+5], and
\* final = clamp(composite + clamp(adjustment, -5, +5), 0, 100); the returned
\* record carries these two numbers rounded to two decimals.
C1_FinalScoreClamped ==
    Done =>
        LET applied == ClampTo(sentiment_adjustment, 0 - Points(5), Points(5))
        IN  /\ locals.sentiment_adjustment = applied
            /\ locals.final_score = ClampTo(locals.composite_score + applied, 0, Points(100))
            /\ InScoreRange(locals.final_score)
            /\ InScoreRange(scores.final_score)
            /\ scores.sentiment_adjustment = Round2(applied)
            /\ scores.final_score = Round2(locals.final_score)

\* C1 witness: an adjustment beyond +5 met a composite above 95, so both
\* clamps acted
C1_Witness ==
    /\ Done
    /\ sentiment_adjustment > Points(5)
    /\ locals.composite_score > Points(95)
    /\ scores.final_score = Points(100)

\* C2 (as claimed): the rating of a returned record is the ladder applied to
\* the final_score of that same record
C2_RatingOfReturnedScore ==
    Done => scores.rating = RatingLadder(scores.final_score)

\* C3: with every input missing and no adjustment, each of the five
\* sub-scores is exactly 50.0 and so is the composite
AllMissing ==
    /\ \A k \in {"pe_ttm", "pe", "trailing_pe", "forward_pe", "pe_forward", "peg_ratio"} :
          Get(valuation_data(fundamental_metrics), k) = None
    /\ \A k \in {"sector_pe_median", "sector_pe", "pe_median"} :
          Get(sector_benchmarks, k) = None
    /\ \A k \in {"revenue_cagr_3y", "eps_cagr_3y", "revenue_yoy"} :
          Get(GetDict(fundamental_metrics, "growth"), k) = None
    /\ \A k \in {"roe", "operating_margin"} :
          Get(GetDict(fundamental_metrics, "profitability"), k) = None
    /\ \A k \in {"debt_equity", "interest_coverage"} :
          Get(GetDict(fundamental_metrics, "financial_health"), k) = None
    /\ \A k \in {"rsi14", "rsi_14", "rsi", "max_drawdown_1y", "max_drawdown"} :
          Get(technical_indicators, k) = None
    /\ \A k \in {"trend_label", "trend"} :
          GetLabel(technical_indicators, k) = NoneLabel
    /\ sentiment_adjustment = 0

C3_AllMissingIsNeutral ==
    (Done /\ AllMissing) =>
        /\ \A k \in SubScoreNames : scores[k] = Points(50) /\ locals[k] = Points(50)
        /\ scores.composite_score = Points(50)
        /\ locals.composite_score = Points(50)

\* C3 witness: the call returned for an all-missing input whose sub-dicts
\* are present but hold only nulls
C3_Witness ==
    /\ Done
    /\ AllMissing
    /\ "growth" \in DOMAIN fundamental_metrics
    /\ "rsi14" \in DOMAIN technical_indicators

\* C4: every sub-score and the composite lie in [0,100] for every input, and
\* a factor none of whose fields is present scores the neutral 50, never 0
FactorMissing(k) ==
    CASE k = "valuation_score" ->
            \A f \in {"pe_ttm", "pe", "trailing_pe", "forward_pe", "pe_forward"} :
                Get(valuation_data(fundamental_metrics), f) = None
      [] k = "growth_score" ->
            \A f \in {"revenue_cagr_3y", "eps_cagr_3y", "revenue_yoy"} :
                Get(GetDict(fundamental_metrics, "growth"), f) = None
      [] k = "profitability_score" ->
            \A f \in {"roe", "operating_margin"} :
                Get(GetDict(fundamental_metrics, "profitability"), f) = None
      [] k = "financial_health_score" ->
            \A f \in {"debt_equity", "interest_coverage"} :
                Get(GetDict(fundamental_metrics, "financial_health"), f) = None
      [] k = "technical_score" ->
            /\ \A f \in {"rsi14", "rsi_14", "rsi", "max_drawdown_1y", "max_drawdown"} :
                  Get(technical_indicators, f) = None
            /\ \A f \in {"trend_label", "trend"} :
                  GetLabel(technical_indicators, f) = NoneLabel

C4_ScoresInRange ==
    Done =>
        /\ \A k \in SubScoreNames :
              /\ InScoreRange(locals[k])
              /\ InScoreRange(scores[k])
              /\ FactorMissing(k) => locals[k] = Points(50)
        /\ InScoreRange(locals.composite_score)
        /\ InScoreRange(scores.composite_score)

\* C4 witness: the valuation score sits on the upper limit (its buckets add
\* up to 110) while another factor has no data at all
C4_Witness ==
    /\ Done
    /\ locals.valuation_score = Points(100)
    /\ FactorMissing("technical_score")
    /\ Get(valuation_data(fundamental_metrics), "peg_ratio") # None

\* config.SCORING["weights"], in percent
SCORING_weights ==
    [valuation_score |-> 25, growth_score |-> 25, profitability_score |-> 15,
     financial_health_score |-> 15, technical_score |-> 20]

\* C5: the composite is the sum of the sub-scores weighted as config.SCORING
\* declares, the weights sum to 1, and five equal sub-scores give that same
\* composite; the returned composite is this number to two decimals
C5_CompositeIsWeightedSum ==
    Done =>
        /\ 100 * locals.composite_score
              = SCORING_weights.valuation_score * locals.valuation_score
              + SCORING_weights.growth_score * locals.growth_score
              + SCORING_weights.profitability_score * locals.profitability_score
              + SCORING_weights.financial_health_score * locals.financial_health_score
              + SCORING_weights.technical_score * locals.technical_score
        /\ SCORING_weights.valuation_score + SCORING_weights.growth_score
              + SCORING_weights.profitability_score
              + SCORING_weights.financial_health_score
              + SCORING_weights.technical_score = 100
        /\ (\A k \in SubScoreNames : locals[k] = locals.valuation_score)
              => locals.composite_score = locals.valuation_score
        /\ scores.composite_score = Round2(locals.composite_score)

\* C5 witness: five equal sub-scores away from the neutral 50
C5_Witness ==
    /\ Done
    /\ \A k \in SubScoreNames : locals[k] = Points(65)
    /\ locals.composite_score = Points(65)

\* C6: inputs in the score bands of the test input (revenue CAGR in
\* [0.12,0.20), EPS CAGR in [0.15,0.25), ROE in [0.15,0.25), operating margin
\* in [0.20,0.30), debt/equity in (0.3,0.6], coverage in [6,10), RSI in
\* [40,60], an uptrend, drawdown magnitude in [0.10,0.20), no valuation data,
\* no benchmarks, no adjustment) score growth > 60, technical > 60,
\* final > 50 and rate BUY, HOLD or STRONG BUY
InStrongBands ==
    LET g == GetDict(fundamental_metrics, "growth")
        p == GetDict(fundamental_metrics, "profitability")
        h == GetDict(fundamental_metrics, "financial_health")
        t == technical_indicators
    IN  /\ FactorMissing("valuation_score")
        /\ Get(valuation_data(fundamental_metrics), "peg_ratio") = None
        /\ DOMAIN sector_benchmarks = {}
        /\ sentiment_adjustment = 0
        /\ 12 <= Get(g, "revenue_cagr_3y") /\ Get(g, "revenue_cagr_3y") < 20
        /\ 15 <= Get(g, "eps_cagr_3y") /\ Get(g, "eps_cagr_3y") < 25
        /\ 15 <= Get(p, "roe") /\ Get(p, "roe") < 25
        /\ 20 <= Get(p, "operating_margin") /\ Get(p, "operating_margin") < 30
        /\ 30 < Get(h, "debt_equity") /\ Get(h, "debt_equity") <= 60
        /\ 600 <= Get(h, "interest_coverage") /\ Get(h, "interest_coverage") < 1000
        /\ 4000 <= Get(t, "rsi14") /\ Get(t, "rsi14") <= 6000
        /\ GetLabel(t, "trend_label") \in {"uptrend", "Uptrend"}
        /\ 10 <= Abs(Get(t, "max_drawdown_1y")) /\ Abs(Get(t, "max_drawdown_1y")) < 20

IsTestInput ==
    /\ fundamental_metrics = update(update(StrongGrowth, StrongProfitability), StrongHealth)
    /\ technical_indicators = StrongTechnicals
    /\ sector_benchmarks = EmptyDict
    /\ sentiment_adjustment = 0

C7_RatingMixedCase ==
    (Done /\ IsTestInput) => scores.rating \in {"Buy", "Hold", "Strong Buy"}

(***************************************************************************)
(* The claims about the calculators' preconditions and nulls, checked      *)
(* under SpecCalc.                                                         *)
(***************************************************************************)
SuppliedIncome == GetList(fundamentals, "income_statement")

SuppliedBalance == GetList(fundamentals, "balance_sheet")

\* compute_fundamental_metrics was called and has ended
MetricsDone == pcF = "done" /\ metrics.kind # "FundamentalsDataError"

\* C8: each calculator raises its own named error exactly when its
\* minimum-data precondition is unmet: TechnicalIndicatorError iff the frame
\* has fewer than 200 rows or lacks one of date/open/high/low/close/volume,
\* FundamentalMetricsError iff fewer than 2 income periods or no
\* balance-sheet period is supplied
C8_PreconditionErrors ==
    /\ pcT = "done" =>
          /\ indicators.kind \in {"TechnicalIndicatorError", "ok"}
          /\ indicators.kind = "TechnicalIndicatorError"
                <=> \/ price_df.rows < 200
                    \/ \E c \in {"date", "open", "high", "low", "close", "volume"} :
                          c \notin price_df.columns
    /\ MetricsDone =>
          (metrics.kind = "FundamentalMetricsError"
              <=> (Len(SuppliedIncome) < 2 \/ Len(SuppliedBalance) < 1))

\* C8 witness: a complete frame one row short was refused
C8_Witness ==
    /\ pcT = "done"
    /\ price_df.rows = 199
    /\ price_df.columns = {"date", "open", "high", "low", "close", "volume"}
    /\ indicators.kind = "TechnicalIndicatorError"

IncomeFields ==
    {"revenue", "gross_profit", "operating_income", "net_income", "eps",
     "interest_expense", "ebit"}

BalanceFields ==
    {"total_assets", "total_equity", "total_debt", "cash_and_equivalents",
     "current_assets", "current_liabilities"}

AllFieldsNull ==
    /\ \A i \in 1 .. Len(SuppliedIncome) :
          \A f \in IncomeFields : Get(SuppliedIncome[i], f) = None
    /\ \A i \in 1 .. Len(SuppliedBalance) :
          \A f \in BalanceFields : Get(SuppliedBalance[i], f) = None

\* C9 (as claimed): with at least 2 income periods and 1 balance-sheet period
\* but every field null, the calculator raises nothing and returns every
\* metric null with growth_trend "unknown"
C9_AllNullAbsorbed ==
    (MetricsDone /\ Len(SuppliedIncome) >= 2 /\ Len(SuppliedBalance) >= 1 /\ AllFieldsNull)
        => /\ metrics.kind = "ok"
           /\ metrics.value.growth.growth_trend = "unknown"
           /\ metrics.value.growth.revenue_cagr_3y = NoCagr
           /\ metrics.value.growth.eps_cagr_3y = NoCagr
           /\ \A k \in {"revenue_yoy", "eps_yoy"} : metrics.value.growth[k] = NoRatio
           /\ \A k \in {"gross_margin", "operating_margin", "net_margin", "roe", "roa"} :
                 metrics.value.profitability[k] = NoRatio
           /\ \A k \in {"debt_equity", "interest_coverage", "cash_to_debt",
                        "current_ratio"} :
                 metrics.value.financial_health[k] = NoRatio

\* the provider reports none of `labels` for period c of the frame
Unreported(df, c, labels) ==
    \A l \in labels : l \notin df.index \/ df.columns[c][l] = NaN

\* C10 (as claimed): along get_fundamentals -> compute_fundamental_metrics a
\* line item the provider does not report reaches the metrics as null: the
\* normalized field is None, and the margin or ratio built on it is null
C10_UnreportedStaysNull ==
    (MetricsDone /\ pcF = "done" /\ ticker # "") =>
        /\ \A i \in 1 .. Len(SuppliedIncome) :
              /\ Unreported(provider.income_stmt, i, {"Gross Profit"})
                    => SuppliedIncome[i].gross_profit = None
              /\ Unreported(provider.income_stmt, i,
                            {"Net Income", "Net Income Common Stockholders"})
                    => SuppliedIncome[i].net_income = None
        /\ \A i \in 1 .. Len(SuppliedBalance) :
              Unreported(provider.balance_sheet, i, {"Total Debt"})
                    => SuppliedBalance[i].total_debt = None
        /\ metrics.kind = "ok" =>
              /\ Unreported(provider.income_stmt, 1, {"Gross Profit"})
                    => metrics.value.profitability.gross_margin = NoRatio
              /\ Unreported(provider.balance_sheet, 1, {"Total Debt"})
                    => metrics.value.financial_health.debt_equity = NoRatio

\* C11 (as claimed): a 3-year CAGR is non-null only when at least 4 periods
\* are supplied, and is then computed with years = 3 from the newest period
\* and the oldest of the 4 most recent periods, whatever the number of
\* periods supplied and whichever periods hold nulls
C11_CagrFromFourMostRecent ==
    (MetricsDone /\ metrics.kind = "ok") =>
        \A k \in {"revenue", "eps"} :
            LET got == IF k = "revenue" THEN metrics.value.growth.revenue_cagr_3y
                       ELSE metrics.value.growth.eps_cagr_3y
            IN  got # NoCagr =>
                   /\ Len(SuppliedIncome) >= 4
                   /\ got = [start |-> Get(SuppliedIncome[4], k),
                             end   |-> Get(SuppliedIncome[1], k),
                             years |-> 3]

\* compute_technical_indicators returned a record
IndicatorsReturned == pcT = "done" /\ indicators.kind = "ok"

\* every close of the frame is positive
PositivePrices == \A i \in 1 .. Len(price_df.close) : price_df.close[i] > 0

\* C12: for every price series of at least 200 rows with positive prices the
\* returned max_drawdown_1y is <= 0
C12_DrawdownNotPositive ==
    (IndicatorsReturned /\ price_df.rows >= 200 /\ PositivePrices)
        => indicators.value.max_drawdown_1y <= 0

\* C12 witness: a series that ends at a new high and one that fell from its
\* peak were both measured; this one fell
C12_Witness ==
    /\ IndicatorsReturned
    /\ PositivePrices
    /\ price_df.close[Len(price_df.close)] < price_df.close[1]
    /\ indicators.value.max_drawdown_1y < 0

\* C13 (as claimed): rsi14 is a number in [0, 100], and is 100 when no row
\* of the last 14 closed lower than the row before it, a flat window
\* included
C13_RsiBounded ==
    IndicatorsReturned =>
        /\ indicators.value.rsi14 # NaN
        /\ indicators.value.rsi14 >= 0
        /\ indicators.value.rsi14 <= 100 * 100
        /\ (\A t \in price_df.rows - 13 .. price_df.rows :
                price_df.close[t] >= price_df.close[t - 1])
              => indicators.value.rsi14 = 100 * 100

\* C14 (as claimed): the returned record has exactly the eleven keys sma20,
\* sma50, sma200, rsi14, macd, macd_signal, macd_hist, volatility_30d,
\* max_drawdown_1y, trend_label, momentum_label, with the labels in their
\* domains
C14_ExactKeySet ==
    IndicatorsReturned =>
        /\ DOMAIN indicators.value =
              {"sma20", "sma50", "sma200", "rsi14", "macd", "macd_signal", "macd_hist",
               "volatility_30d", "max_drawdown_1y", "trend_label", "momentum_label"}
        /\ indicators.value.trend_label \in {"uptrend", "downtrend", "sideways"}
        /\ indicators.value.momentum_label \in {"bullish", "bearish", "neutral"}

(***************************************************************************)
(* The claims about the analyst's calls, checked under SpecAnalyst.        *)
(***************************************************************************)
\* get_sector_benchmarks was called on its own and has ended
SectorDone == pcA = "done" /\ benchmarks # NoOutcome

C16_UnknownSectorRaises ==
    (SectorDone /\ sector \notin SectorNames) => benchmarks.kind # "ok"

(***************************************************************************)
(* The claims about the valuation calculator and about the four            *)
(* calculators together, checked under SpecValuation.                      *)
(***************************************************************************)
\* get_valuation_metrics has returned a record built from an info dict
ValuationReturned == calls > 0 /\ valuation.status # "error"

\* the info dict the last call read: the one held in the provider's cache
InfoUsed == provider_instance.cache[Upper(ticker)].info.value

\* a multiple is available when it is reported and positive
MultipleAvailable(key) ==
    /\ key \in DOMAIN InfoUsed
    /\ InfoUsed[key] # None
    /\ InfoUsed[key] > 0

\* the free-cash-flow yield is available when the free cash flow is reported
\* and not zero and the market cap is reported and positive
FcfYieldAvailable ==
    /\ "freeCashflow" \in DOMAIN InfoUsed
    /\ InfoUsed["freeCashflow"] # None
    /\ InfoUsed["freeCashflow"] # 0
    /\ "marketCap" \in DOMAIN InfoUsed
    /\ InfoUsed["marketCap"] # None
    /\ InfoUsed["marketCap"] > 0

ScoredMultiples ==
    {"trailingPE", "forwardPE", "pegRatio", "priceToBook", "enterpriseToEbitda"}

AvailableCount ==
    Cardinality({k \in ScoredMultiples : MultipleAvailable(k)})
      + (IF FcfYieldAvailable THEN 1 ELSE 0)

\* the bucket score of each available metric, 0 for the others
BucketOf(key) ==
    IF ~MultipleAvailable(key) THEN 0
    ELSE CASE key = "trailingPE"         -> pe_ttm_scores(InfoUsed[key])[1]
           [] key = "forwardPE"          -> pe_forward_scores(InfoUsed[key])[1]
           [] key = "pegRatio"           -> peg_ratio_scores(InfoUsed[key])[1]
           [] key = "priceToBook"        -> price_to_book_scores(InfoUsed[key])[1]
           [] key = "enterpriseToEbitda" -> ev_to_ebitda_scores(InfoUsed[key])[1]

FcfYieldBucket ==
    IF ~FcfYieldAvailable THEN 0
    ELSE fcf_yield_scores([num |-> InfoUsed["freeCashflow"] * 100,
                           den |-> InfoUsed["marketCap"]])[1]

AvailableBucketSum ==
    BucketOf("trailingPE") + BucketOf("forwardPE") + BucketOf("pegRatio")
      + BucketOf("priceToBook") + BucketOf("enterpriseToEbitda") + FcfYieldBucket

\* C17: when none of the valuation metrics is available, the valuation
\* score is 50 and the valuation label is "Unknown".
C17_NoMetricsGivesUnknown ==
    (ValuationReturned /\ AvailableCount = 0)
        => /\ valuation.valuation_score = 500
           /\ valuation.valuation_label = "Unknown"

\* C18: the valuation score is the unweighted mean (to one decimal) of the
\* bucket scores of exactly the available metrics; it lies in [20, 95]; the
\* label is "Undervalued" exactly from 70 up, "Fair Value" exactly from 45
\* up to below 70, and "Overvalued" below 45.
C18_ScoreIsMeanOfAvailableBuckets ==
    ValuationReturned =>
        /\ AvailableCount > 0 =>
              valuation.valuation_score = RoundDiv(AvailableBucketSum * 10, AvailableCount)
        /\ valuation.valuation_score >= 200
        /\ valuation.valuation_score <= 950
        /\ (valuation.valuation_label = "Undervalued") = (valuation.valuation_score >= 700)
        /\ (valuation.valuation_label = "Fair Value") =
              (valuation.valuation_score >= 450 /\ valuation.valuation_score < 700)
        /\ (valuation.valuation_label = "Overvalued") = (valuation.valuation_score < 450)

\* some metrics are available and some are not, and the mean of the bucket
\* scores is not a whole number
C18_Witness ==
    /\ ValuationReturned
    /\ AvailableCount >= 2
    /\ AvailableCount < 6
    /\ valuation.valuation_score % 10 # 0
    /\ valuation.valuation_label = "Undervalued"

\* a step of one of the four calculators
CalculatorStep ==
    \/ ComputeFactorScores
    \/ ComputeFundamentalMetrics
    \/ ComputeTechnicalIndicators
    \/ GetValuationMetrics

\* C20: the four calculators leave their inputs and the process-wide state,
\* the singleton provider and its cache included, unchanged, and calling one
\* again with the same inputs returns the same result.
C20_CalculatorsArePure ==
    /\ [][CalculatorStep =>
             UNCHANGED <<fundamental_metrics, technical_indicators, sector_benchmarks,
                         sentiment_adjustment, fundamentals, price_df, ticker,
                         provider_instance>>]_vars
    /\ [](calls >= 2 => valuation = first_valuation)

(***************************************************************************)
(* The claim about the analyst path, checked under SpecAnalyst.            *)
(***************************************************************************)
\* a calculator (or a fetch before it) raised inside the tool
ToolFailed == tool_result # EmptyDict /\ tool_result.status = "error"

\* C19: a run in which a calculator raised yields outputs with no factor
\* scores, final score or rating: neither the validated analyst output nor
\* the validated report carries the default 50.0 / HOLD.
C19_FailureCarriesNoScores ==
    ToolFailed =>
        /\ analyst_output.kind = "ok" =>
              ~(/\ analyst_output.value.scores.final_score = 50 * Scale
                /\ analyst_output.value.scores.rating = "HOLD")
        /\ report_output.kind = "ok" =>
              ~(/\ report_output.value.final_score = 50 * Scale
                /\ report_output.value.rating_5_tier = "HOLD")

(***************************************************************************)
(* Further claims about compute_factor_scores, checked under Spec.         *)
(***************************************************************************)
\* the technical indicators hold no alias key (rsi_14, rsi, trend,
\* max_drawdown)
PlainTechnicals ==
    DOMAIN technical_indicators \subseteq {"rsi14", "trend_label", "max_drawdown_1y"}

\* C24: every present drawdown and RSI value is bucketed, zero included (a
\* drawdown of 0 scores 90, an rsi14 of 0 scores 35), and only an absent
\* field scores the neutral 50: the technical score is the mean of the RSI
\* bucket, the trend bucket and the drawdown bucket of the fields as given.
C24_ZeroIsBucketed ==
    (Done /\ PlainTechnicals) =>
        locals.technical_score =
            ClampTo(((rsi_score(Get(technical_indicators, "rsi14"))
                        + trend_score(GetLabel(technical_indicators, "trend_label"))
                        + dd_score(Get(technical_indicators, "max_drawdown_1y")))
                     * Scale) \div 3,
                    0, Points(100))

\* the +/-5 as a comparison of revenue_yoy against a present revenue_cagr_3y
GrowthAdjustment(growth) ==
    LET rev_cagr    == Get(growth, "revenue_cagr_3y")
        revenue_yoy == Get(growth, "revenue_yoy")
    IN  IF rev_cagr = None \/ revenue_yoy = None THEN 0
        ELSE IF revenue_yoy > rev_cagr THEN 5
        ELSE IF revenue_yoy < rev_cagr THEN 0 - 5
        ELSE 0

\* C25: the growth score is the mean of the two CAGR buckets (a missing CAGR
\* counting 50) plus 5 when revenue_yoy exceeds revenue_cagr_3y and minus 5
\* when it trails it; with revenue_cagr_3y missing there is no adjustment,
\* and with both CAGRs missing the score is 50 whatever revenue_yoy is.
C25_GrowthAdjustmentNeedsCagr ==
    Done =>
        LET growth == GetDict(fundamental_metrics, "growth")
        IN  /\ locals.growth_score =
                  ClampTo(((cagr_score(Get(growth, "revenue_cagr_3y"), FALSE)
                              + cagr_score(Get(growth, "eps_cagr_3y"), TRUE)) * Scale) \div 2
                           + Points(GrowthAdjustment(growth)),
                          0, Points(100))
            /\ (Get(growth, "revenue_cagr_3y") = None /\ Get(growth, "eps_cagr_3y") = None)
                  => locals.growth_score = Points(50)

\* the benchmarks are a record of get_sector_benchmarks, and the P/E the
\* score is built on (the forward P/E, else the trailing one) is positive
PipelineBenchmarks ==
    /\ "valuation" \in DOMAIN sector_benchmarks
    /\ "source" \in DOMAIN sector_benchmarks
    /\ sector_benchmarks.source = "static_v1"
    /\ DOMAIN fundamental_metrics = {"pe_ttm", "forward_pe", "peg_ratio"}

PeUsed == Or(fundamental_metrics.forward_pe, fundamental_metrics.pe_ttm)

\* the absolute P/E band score
AbsolutePeBand(pe) ==
    IF pe < 1000 THEN 85
    ELSE IF pe < 1500 THEN 75
    ELSE IF pe < 2000 THEN 65
    ELSE IF pe < 2500 THEN 55
    ELSE IF pe < 3500 THEN 40
    ELSE 25

\* the sector-relative adjustment against the median P/E
SectorRelativeAdjustment(pe, median) ==
    IF 10 * pe < 7 * median THEN 15
    ELSE IF 10 * pe < 9 * median THEN 8
    ELSE IF 10 * pe > 13 * median THEN 0 - 15
    ELSE IF 10 * pe > 11 * median THEN 0 - 8
    ELSE 0

PegAdjustment(peg) ==
    IF peg = None \/ peg <= 0 THEN 0
    ELSE IF peg < 100 THEN 10
    ELSE IF peg < 150 THEN 5
    ELSE IF peg > 250 THEN 0 - 10
    ELSE IF peg > 200 THEN 0 - 5
    ELSE 0

\* C23: given the record of get_sector_benchmarks and a positive P/E, the
\* valuation score is the absolute P/E band score plus the sector-relative
\* adjustment against that sector's median P/E (+15 below 0.7x, +8 below
\* 0.9x, -15 above 1.3x, -8 above 1.1x) plus the PEG adjustment, clamped.
C23_SectorAdjustmentApplied ==
    (Done /\ PipelineBenchmarks /\ PeUsed # None /\ PeUsed > 0) =>
        locals.valuation_score =
            ClampTo(Points(AbsolutePeBand(PeUsed)
                           + SectorRelativeAdjustment(PeUsed,
                                 sector_benchmarks.valuation.pe_median)
                           + PegAdjustment(fundamental_metrics.peg_ratio)),
                    0, Points(100))

(***************************************************************************)
(* The claims about the memory and about run_full_research, checked under  *)
(* SpecMemory.                                                             *)
(***************************************************************************)
Retrieved == op.name = "retrieve"

\* the stored artifacts of the ticker and artifact type the last call named
StoredForOp ==
    {id \in DOMAIN collection : /\ collection[id].metadata.ticker = op.ticker
                                /\ collection[id].metadata.artifact_type = op.artifact_type}

ExpiredAt(id, clock) == collection[id].metadata.expires_at < clock

\* the artifacts a retrieval at op.at may hand out
EligibleForOp == {id \in StoredForOp : op.allow_expired \/ ~ExpiredAt(id, op.at)}

\* the returned dict is the content stored under id
IsContentOf(result, id) ==
    /\ ~IsNone(result)
    /\ \A k \in DOMAIN collection[id].document :
          k \in DOMAIN result /\ result[k] = json_loads_value(collection[id].document[k])
    /\ "_meta_created_at" \in DOMAIN result
    /\ result["_meta_created_at"] = ToString(collection[id].metadata.created_at)

\* C21: a retrieval without allow_expired never returns an artifact whose
\* expiry lies before the retrieval time (an artifact saved with ttl_days=0
\* is not returned by a later retrieval, which returns None when nothing
\* else is eligible); with allow_expired it may be returned; of several
\* eligible artifacts the one created last is returned.
C21_RetrieveHonoursExpiry ==
    Retrieved =>
        IF EligibleForOp = {} THEN IsNone(retrieved)
        ELSE \E id \in EligibleForOp :
                /\ IsContentOf(retrieved, id)
                /\ \A o \in EligibleForOp :
                      collection[o].metadata.created_at <= collection[id].metadata.created_at

\* an artifact saved with ttl_days=0 is all there is, and a later retrieval
\* without allow_expired returned None
C21_Witness ==
    /\ Retrieved
    /\ ~op.allow_expired
    /\ IsNone(retrieved)
    /\ StoredForOp # {}
    /\ \A id \in StoredForOp :
          collection[id].metadata.expires_at = collection[id].metadata.created_at

\* the last two calls: a save with a positive TTL, then a retrieval of the
\* same ticker and artifact type before the artifact expires
SavedThenRetrieved ==
    /\ Retrieved
    /\ prev_op.name = "save"
    /\ prev_op.ticker = op.ticker
    /\ prev_op.artifact_type = op.artifact_type
    /\ prev_op.ttl_days > 0
    /\ op.at <= prev_op.at + prev_op.ttl_days * TicksPerDay

\* what a value of the saved content reads as after it was stored as JSON:
\* itself, but a date comes back as the string str() made of it
AsStored(v) == IF v = DateObject THEN DateString ELSE v

DayKey(coll, id) ==
    <<coll[id].metadata.ticker, coll[id].metadata.artifact_type,
      utc_date(coll[id].metadata.created_at)>>

OnePerKeyAndDay ==
    \A a, b \in DOMAIN collection :
        DayKey(collection, a) = DayKey(collection, b) => a = b

\* this step is a direct call of save_to_chroma
SaveStep == op'.name = "save" /\ op'.at = utc_clock

SavedKey == <<op'.ticker, op'.artifact_type, utc_date(op'.at)>>

\* what a save leaves behind: one document for its key and day, holding
\* the content and times of this save; every other document as it was; a
\* document more only if the key and day had none
SaveOverwrites ==
    /\ \E id \in DOMAIN collection' :
          /\ DayKey(collection', id) = SavedKey
          /\ \A o \in DOMAIN collection' : DayKey(collection', o) = SavedKey => o = id
          /\ DOMAIN collection'[id].document = DOMAIN op'.content
          /\ \A k \in DOMAIN op'.content :
                json_loads_value(collection'[id].document[k]) = AsStored(op'.content[k])
          /\ collection'[id].metadata.created_at = op'.at
          /\ collection'[id].metadata.expires_at = op'.at + op'.ttl_days * TicksPerDay
    /\ \A id \in DOMAIN collection :
          DayKey(collection, id) # SavedKey =>
              id \in DOMAIN collection' /\ collection'[id] = collection[id]
    /\ Cardinality(DOMAIN collection') =
          Cardinality(DOMAIN collection)
          + (IF \E id \in DOMAIN collection : DayKey(collection, id) = SavedKey
             THEN 0 ELSE 1)

\* C28: the store holds at most one document per (ticker, artifact_type,
\* UTC calendar day); a second save for the same key on the same day
\* overwrites content, created_at and expires_at of the first instead of
\* adding a document, and documents of other keys are left untouched.
C28_OneDocumentPerKeyAndDay ==
    /\ []OnePerKeyAndDay
    /\ [][SaveStep => SaveOverwrites]_vars

\* two saves of the same key on the same day, with different content and
\* TTL: the store holds the second only
C28_Witness ==
    /\ op.name = "save"
    /\ prev_op.name = "save"
    /\ prev_op.ticker = op.ticker
    /\ prev_op.artifact_type = op.artifact_type
    /\ utc_date(prev_op.at) = utc_date(op.at)
    /\ prev_op.content # op.content
    /\ prev_op.ttl_days # op.ttl_days
    /\ Cardinality(DOMAIN collection) = 1
    /\ \A id \in DOMAIN collection :
          /\ collection[id].metadata.created_at = op.at
          /\ collection[id].document = json_dumps(op.content)

\* this step is a call of run_full_research
RunStep == op'.name = "run" /\ op'.at = utc_clock

ServedFromCache(result) == ~IsNone(result) /\ result.execution_info = "success (cached)"

HasScore(d) == "final_score" \in DOMAIN d /\ d.final_score # PyNone

\* the stored reports of a ticker that have not expired at a clock reading
LiveReports(coll, tk, clock) ==
    {id \in DOMAIN coll : /\ coll[id].metadata.ticker = tk
                          /\ coll[id].metadata.artifact_type = "report"
                          /\ coll[id].metadata.expires_at >= clock}

\* the documents a step wrote
Written == {id \in DOMAIN collection' : id \notin DOMAIN collection
                                        \/ collection'[id] # collection[id]}

\* a cached report is returned only without force_refresh, only if a live
\* stored report of the ticker has a score, and it is that report
CacheServedOnlyIfValid ==
    ServedFromCache(served') =>
        /\ ~op'.force_refresh
        /\ HasScore(served')
        /\ collection' = collection
        /\ \E id \in LiveReports(collection, op'.ticker, op'.at) :
              /\ HasScore(json_loads(collection[id].document))
              /\ served'.final_score = json_loads(collection[id].document).final_score

\* the store is written only with the fresh result, and only if it has a score
SavedOnlyWithScore ==
    \A id \in Written :
        /\ ~ServedFromCache(served')
        /\ HasScore(served')
        /\ HasScore(json_loads(collection'[id].document))
        /\ json_loads(collection'[id].document).final_score = served'.final_score
        /\ collection'[id].metadata.ticker = op'.ticker
        /\ collection'[id].metadata.artifact_type = "report"

\* C29: run_full_research returns a cached report only when force_refresh
\* is false and the cached record has a non-null final_score; with
\* force_refresh the cache is never read; a fresh result is saved only when
\* its final_score is non-null, so no run writes a report without a score
\* into the store and no report without a score is served from cache.
C29_CacheHoldsAndServesScoredReportsOnly ==
    /\ [][RunStep => (CacheServedOnlyIfValid /\ SavedOnlyWithScore)]_vars
    /\ [](ServedFromCache(served) => HasScore(served))

\* a live report without a score is stored for the ticker; a run without
\* force_refresh did not serve it, ran the crew, got no score and saved nothing
C29_Witness ==
    /\ op.name = "run"
    /\ ~op.force_refresh
    /\ served.execution_info = "success"
    /\ ~HasScore(served)
    /\ \E id \in LiveReports(collection, op.ticker, op.at) :
          /\ ~HasScore(json_loads(collection[id].document))
          /\ \A o \in LiveReports(collection, op.ticker, op.at) :
                collection[o].metadata.created_at <= collection[id].metadata.created_at

(***************************************************************************)
(* The claims about the provider's cache, checked under SpecConcurrent.    *)
(***************************************************************************)
EntryIds == 1..Len(cache_entries)

\* C26: for a ticker and a data kind, the calls made while one cache
\* entry lives (sequential or concurrent, the ticker in either case)
\* trigger at most one yfinance fetch between them, and every caller is
\* returned the same cached value.
C26_OneFetchPerEntryAndKind ==
    \A e \in EntryIds, kind \in DataKinds :
        /\ fetch_count[e][kind] <= 1
        /\ Cardinality(observed[e][kind]) <= 1

\* every key of the cache is an upper-cased ticker and maps to that
\* ticker's object
KeysAreUpperCased ==
    \A k \in DOMAIN provider_cache :
        k = Upper(k) /\ cache_entries[provider_cache[k]].ticker = k

OlderThanTtl(entry, clock) == clock - entry.created_at > cache_ttl

\* this step is the lookup of thread t
LookupStep(t) == callers[t].pc = "idle" /\ callers'[t].pc = "check"

\* the lookup hands out the ticker's entry if it holds one no older than
\* the TTL, and otherwise installs and hands out a fresh one with nothing
\* fetched; entries of other tickers stay
LookupHandsOutLiveEntry(t) ==
    LET tk == Upper(callers'[t].ticker)
        e  == callers'[t].cached
    IN  /\ DOMAIN provider_cache' = DOMAIN provider_cache \cup {tk}
        /\ provider_cache'[tk] = e
        /\ \A k \in DOMAIN provider_cache \ {tk} : provider_cache'[k] = provider_cache[k]
        /\ cache_entries'[e].ticker = tk
        /\ ~OlderThanTtl(cache_entries'[e], wall_clock)
        /\ IF tk \in DOMAIN provider_cache
              /\ ~OlderThanTtl(cache_entries[provider_cache[tk]], wall_clock)
           THEN e = provider_cache[tk] /\ cache_entries' = cache_entries
           ELSE /\ e = Len(cache_entries) + 1
                /\ cache_entries'[e].created_at = wall_clock
                /\ \A kind \in DataKinds : cache_entries'[e].data[kind] = Unfetched
                /\ \A o \in EntryIds : cache_entries'[o] = cache_entries[o]

\* clear_cache(ticker) removes that ticker's entry and no other;
\* clear_cache() removes all
ClearRemovesExactly(arg) ==
    IF arg = NoneLabel THEN DOMAIN provider_cache' = {}
    ELSE /\ DOMAIN provider_cache' = DOMAIN provider_cache \ {Upper(arg)}
         /\ \A k \in DOMAIN provider_cache' : provider_cache'[k] = provider_cache[k]

\* a caller that finds the field of its entry unfetched fetches
ChecksBeforeReturning(t) ==
    (callers[t].pc = "check" /\ callers'[t].pc = "return") =>
        cache_entries[callers[t].cached].data[callers[t].kind] # Unfetched

\* C27: the cache holds at most one entry per upper-cased ticker; an entry
\* older than the TTL is never handed out by a new lookup, which deletes it
\* and installs a fresh entry with every data field unfetched;
\* clear_cache(ticker) removes exactly that ticker's entry and clear_cache()
\* removes all, so the next access gets a fresh entry and refetches.
C27_ExpiredEntriesAreReplaced ==
    /\ []KeysAreUpperCased
    /\ [][\A t \in Threads : LookupStep(t) => LookupHandsOutLiveEntry(t)]_vars
    /\ [][\A arg \in ClearArguments : ClearCache(arg) => ClearRemovesExactly(arg)]_vars
    /\ [][\A t \in Threads : ChecksBeforeReturning(t)]_vars

\* an entry that held fetched data grew older than the TTL; the next
\* lookup of the ticker replaced it by a fresh entry with nothing fetched
C27_Witness ==
    /\ Len(cache_entries) = 2
    /\ cache_entries[1].ticker = cache_entries[2].ticker
    /\ cache_entries[2].created_at - cache_entries[1].created_at > cache_ttl
    /\ cache_entries[1].data["info"] # Unfetched
    /\ provider_cache[cache_entries[2].ticker] = 2
    /\ \A kind \in DataKinds : cache_entries[2].data[kind] = Unfetched
    /\ \E t \in Threads : callers[t].pc = "check" /\ callers[t].cached = 2

(***************************************************************************)
(* The claim about the asynchronous research tasks, checked under          *)
(* SpecTasksFair.                                                          *)
(***************************************************************************)
Terminal(status) == status \in {COMPLETED, FAILED}

AllowedTransitions ==
    {<<PENDING, RUNNING>>, <<RUNNING, COMPLETED>>, <<RUNNING, FAILED>>}

\* what every stored task looks like
TaskIsWellFormed(task) ==
    /\ task.status \in {PENDING, RUNNING, COMPLETED, FAILED}
    /\ task.report # NoneLabel => task.status = COMPLETED
    /\ task.error_message # NoneLabel => task.status = FAILED
    /\ task.completed_at # None <=> Terminal(task.status)

\* what a step may do to a task: create it PENDING, leave its status, or
\* move it along an allowed transition; a terminal task is left as it is,
\* and a task entering a terminal status is stamped with the time
TaskStepIsAllowed(id) ==
    IF id \notin DOMAIN task_store THEN task_store'[id].status = PENDING
    ELSE /\ \/ task_store'[id].status = task_store[id].status
            \/ <<task_store[id].status, task_store'[id].status>> \in AllowedTransitions
         /\ Terminal(task_store[id].status) => task_store'[id] = task_store[id]
         /\ (~Terminal(task_store[id].status) /\ Terminal(task_store'[id].status)) =>
                task_store'[id].completed_at = api_clock

\* a step changes at most one task, the one whose own coroutine moved, and
\* removes none
OnlyOwnEntryChanges ==
    /\ DOMAIN task_store \subseteq DOMAIN task_store'
    /\ \A a \in DOMAIN task_store :
          task_store'[a] # task_store[a] =>
              /\ executions'[a] # executions[a]
              /\ \A b \in DOMAIN task_store \ {a} :
                    task_store'[b] = task_store[b] /\ executions'[b] = executions[b]

RunEnded(id) == id \in DOMAIN executions /\ executions[id].state \in {"returned", "raised"}

ReachedTerminal(id) == id \in DOMAIN task_store /\ Terminal(task_store[id].status)

\* C30: every task follows PENDING -> RUNNING -> (COMPLETED | FAILED) and
\* nothing else; a terminal status never changes; report is non-null only
\* in COMPLETED and error_message only in FAILED; completed_at is set
\* exactly on entering a terminal status; once the research run returns or
\* raises the task reaches a terminal status; concurrent tasks update only
\* their own entry.
C30_TaskLifecycle ==
    /\ [](\A id \in DOMAIN task_store : TaskIsWellFormed(task_store[id]))
    /\ [][\A id \in DOMAIN task_store' : TaskStepIsAllowed(id)]_vars
    /\ [][OnlyOwnEntryChanges]_vars
    /\ \A id \in TaskIds : RunEnded(id) ~> ReachedTerminal(id)

\* two tasks ran concurrently: the second started while the first was
\* running; one completed with its report, the other failed with its error
C30_Witness ==
    /\ DOMAIN task_store = TaskIds
    /\ \E a, b \in TaskIds :
          /\ task_store[a].status = COMPLETED
          /\ task_store[a].report # NoneLabel
          /\ task_store[b].status = FAILED
          /\ task_store[b].error_message # NoneLabel
          /\ task_store[b].report = NoneLabel
          /\ task_store[a].started_at < task_store[b].started_at
          /\ task_store[b].started_at < task_store[a].completed_at
          /\ task_store[a].completed_at < task_store[b].completed_at

====
